---- MODULE Spec2Model ----
(***************************************************************************)
(* A model of majjit's foldable log tree (src/src/log_tree.rs), of the     *)
(* Model that owns it (src/src/model.rs: selection, viewport, chord        *)
(* buffer, info display) and of the main loop that alternates a draw of    *)
(* the view with the handling of one event (src/src/tui.rs,                *)
(* src/src/update.rs).                                                     *)
(*                                                                         *)
(* Rust values are written as follows.  Option<T>: the empty sequence is   *)
(* None and <<x>> is Some(x).  Vec<T>: a sequence, indexed from 1, while   *)
(* every index the program stores (tree positions, flat_log_idx, selected, *)
(* offset) keeps its 0-based Rust value.  Result<T>: a record whose field  *)
(* res is "ok", "err" (an Err is returned) or "panic" (an unwrap or an     *)
(* index out of range aborts the process).                                 *)
(***************************************************************************)
EXTENDS Integers, Sequences, FiniteSets, TLC

VARIABLES
    model,  \* the Model struct (src/src/model.rs:30-43)
    world,  \* what the jj collaborator answers: the repository and the terminal
    pc,     \* position in the main loop: "draw" or "update"
    exit,   \* how the main loop ended: "none", "quit", "error" or "panic"
    last    \* the message handled by the last update, and the queries it issued

vars == <<model, world, pc, exit, last>>

None == <<>>
Some(x) == <<x>>
IsSome(o) == o # <<>>
Unwrap(o) == o[1]

Min(a, b) == IF a < b THEN a ELSE b
Max(a, b) == IF a > b THEN a ELSE b

\* the element of a set of one element; Only({F(x) : x \in {e}}) is F(e)
\* with e computed once
Only(S) == CHOOSE x \in S : TRUE
SatSub(a, b) == IF a > b THEN a - b ELSE 0
Last(s) == s[Len(s)]
Front(s) == SubSeq(s, 1, Len(s) - 1)
IsPrefix(p, s) == Len(p) <= Len(s) /\ SubSeq(s, 1, Len(p)) = p

(***************************************************************************)
(* Tree positions (log_tree.rs:137-151).                                   *)
(***************************************************************************)
COMMIT_OR_TEXT_IDX == 0
FILE_DIFF_IDX == 1
DIFF_HUNK_IDX == 2
DIFF_HUNK_LINE_IDX == 3

\* Vec::truncate(n)
Truncate(s, n) == IF Len(s) > n THEN SubSeq(s, 1, n) ELSE s

get_parent_tree_position(tree_pos) ==
    IF Len(tree_pos) > 1 THEN Some(Front(tree_pos)) ELSE None

(***************************************************************************)
(* Text.  A Rust string is a string; the escape character 0x1b is written  *)
(* here as #.  The regular expressions of the source are matched as the    *)
(* regex crate matches them (leftmost, with the preference order of the    *)
(* greedy and lazy operators).                                             *)
(***************************************************************************)
ESC == "#"

\* White_Space, the class \\s of the regex crate and of str::trim; of its
\* characters, those a string of this module can hold: tab, line feed,
\* vertical tab, form feed, carriage return, space, next line (U+0085) and
\* no-break space (U+00A0)
Whitespace == {"\t", "\n", "", "\f", "\r", " ", "", " "}
Digits == {"0", "1", "2", "3", "4", "5", "6", "7", "8", "9"}

\* the i-th character of s (from 1), and the characters from i to j
Ch(s, i) == SubSeq(s, i, i)
Sub(s, i, j) == IF i > j THEN "" ELSE SubSeq(s, i, j)

\* the number of characters of s from the i-th on that are in set
RECURSIVE RunLen(_, _, _)
RunLen(s, i, set) ==
    IF i > Len(s) \/ Ch(s, i) \notin set THEN 0 ELSE 1 + RunLen(s, i + 1, set)

\* the end of the escape sequence \x1b\[[0-9;]*m that starts at i, or 0
AnsiEnd(s, i) ==
    LET End(k) == IF k <= Len(s) /\ Ch(s, k) = "m" THEN k ELSE 0
    IN IF i + 2 <= Len(s) /\ Ch(s, i) = ESC /\ Ch(s, i + 1) = "["
       THEN End(i + 2 + RunLen(s, i + 2, Digits \cup {";"}))
       ELSE 0

\* strip_ansi (ansi.rs:3-6): replace_all of the escape sequences by ""
RECURSIVE strip_ansi_from(_, _)
strip_ansi_from(s, i) ==
    LET Rest(end) ==
            IF end # 0 THEN strip_ansi_from(s, end + 1)
            ELSE Ch(s, i) \o strip_ansi_from(s, i + 1)
    IN IF i > Len(s) THEN "" ELSE Rest(AnsiEnd(s, i))

strip_ansi(pretty_str) == strip_ansi_from(pretty_str, 1)

\* the number of characters of s from the i-th back that are in set
RECURSIVE RunLenBack(_, _, _)
RunLenBack(s, i, set) ==
    IF i < 1 \/ Ch(s, i) \notin set THEN 0 ELSE 1 + RunLenBack(s, i - 1, set)

\* str::trim_start, str::trim_end, str::trim
trim_start(s) == Sub(s, RunLen(s, 1, Whitespace) + 1, Len(s))
trim_end(s) == Sub(s, 1, Len(s) - RunLenBack(s, Len(s), Whitespace))
trim(s) == trim_end(trim_start(s))

\* output.trim().lines() of an output printed as the lines given, each with
\* its line feed: the lines of white space at the two ends are no lines, the
\* first line left starts and the last one ends without white space, and
\* str::lines takes the carriage return off the end of a line
trim_lines(lines) ==
    LET Line(l) == IF Len(l) > 0 /\ Ch(l, Len(l)) = "\r" THEN Sub(l, 1, Len(l) - 1) ELSE l
        Between(a, b) ==
            [i \in 1..(b - a + 1) |->
                IF a = b THEN trim(lines[a])
                ELSE IF i = 1 THEN Line(trim_start(lines[a]))
                ELSE IF i = b - a + 1 THEN trim_end(lines[b])
                ELSE Line(lines[a + i - 1])]
        Kept(keep) ==
            IF keep = {} THEN <<>>
            ELSE Between(CHOOSE a \in keep : \A k \in keep : a <= k,
                         CHOOSE b \in keep : \A k \in keep : k <= b)
    IN Kept({i \in 1..Len(lines) : trim(lines[i]) # ""})

\* the first place from i on where pat stands in s, or 0
RECURSIVE Find(_, _, _)
Find(s, pat, i) ==
    IF i + Len(pat) - 1 > Len(s) THEN 0
    ELSE IF Sub(s, i, i + Len(pat) - 1) = pat THEN i
    ELSE Find(s, pat, i + 1)

\* str::replacen(pat, "", 1): the first pat taken out of s (an empty pat
\* stands before the first character, and taking it out changes nothing)
replacen_first(s, pat) ==
    LET Without(i) ==
            IF i = 0 THEN s ELSE Sub(s, 1, i - 1) \o Sub(s, i + Len(pat), Len(s))
    IN Without(Find(s, pat, 1))

\* A u32 below 2^31 is written as itself, and one from 2^31 on as the
\* negative number with the same 32 bits, n - 2^32.
U32Less(a, b) == IF (a >= 0) = (b >= 0) THEN a < b ELSE a >= 0

\* u32::max
u32_max(a, b) == IF U32Less(a, b) THEN b ELSE a

\* n + 2^31 or n - 2^31, whichever is written with 32 bits
FlipTop(n) == IF n >= 0 THEN (n - 2147483647) - 1 ELSE (n + 2147483647) + 1

\* u32::wrapping_sub, and u32::wrapping_add of 1
wrapping_sub(a, b) ==
    IF (a >= 0) = (b >= 0) THEN a - b
    ELSE IF a >= 0 THEN FlipTop(a - FlipTop(b))
    ELSE FlipTop(FlipTop(a) - b)

wrapping_inc(n) == IF n = 2147483647 THEN FlipTop(0) ELSE n + 1

\* str::parse::<u32> of a string of digits: None is the Err of a number that
\* does not fit
RECURSIVE DigitsValue(_, _, _)
DigitsValue(s, i, acc) ==
    IF i > Len(s) THEN acc
    ELSE DigitsValue(s, i + 1,
                     10 * acc + (CHOOSE d \in 0..9 : Ch("0123456789", d + 1) = Ch(s, i)))

\* the zeros a number starts with do not count; of what follows, ten digits
\* fit up to 4294967295: lead is the first of the ten and rest the value of
\* the other nine
parse_u32(s) ==
    LET Ten(lead, rest) ==
            CASE lead = 1 -> Some(1000000000 + rest)
              [] lead = 2 /\ rest <= 147483647 -> Some(2000000000 + rest)
              [] lead = 2 -> Some(FlipTop(rest - 147483648))
              [] lead = 3 -> Some(rest - 1294967296)
              [] lead = 4 /\ rest <= 294967295 -> Some(rest - 294967296)
              [] OTHER -> None
        Significant(t) ==
            IF Len(t) <= 9 THEN Some(DigitsValue(t, 1, 0))
            ELSE IF Len(t) > 10 THEN None
            ELSE Ten(DigitsValue(Sub(t, 1, 1), 1, 0), DigitsValue(t, 2, 0))
    IN Significant(Sub(s, RunLen(s, 1, {"0"}) + 1, Len(s)))

\* the decimal digits of a number from 0 to 2^31 - 1
RECURSIVE to_string(_)
to_string(n) ==
    IF n < 10 THEN Ch("0123456789", n + 1)
    ELSE to_string(n \div 10) \o Ch("0123456789", (n % 10) + 1)

\* Display of a u32: a number from 2^31 on is 2^31 + low, and its last digit
\* and the digits before it are computed apart
u32_to_string(n) ==
    LET Upper(low) ==
            to_string((low \div 10) + 214748364 + (((low % 10) + 8) \div 10))
               \o Ch("0123456789", (((low % 10) + 8) % 10) + 1)
    IN IF n >= 0 THEN to_string(n) ELSE Upper(FlipTop(n))

\* u32::ilog10 of a positive number
RECURSIVE ilog10(_)
ilog10(n) ==
    IF n < 0 THEN 9
    ELSE IF n < 10 THEN 0 ELSE 1 + ilog10(n \div 10)

(***************************************************************************)
(* Rendering.  A rendered item is the fold symbol of its node and its      *)
(* display lines; the number of display lines is what the viewport reads.  *)
(***************************************************************************)
fold_symbol(unfolded) == IF unfolded THEN "v" ELSE ">"

Commit_render(c) ==
    [kind |-> "Commit", fold |-> fold_symbol(c.unfolded),
     lines |-> IF c.pretty_line2 = "" THEN <<c.pretty_line1>>
                                      ELSE <<c.pretty_line1, c.pretty_line2>>]

InfoText_render(t) ==
    [kind |-> "InfoText", fold |-> "", lines |-> <<t.pretty_string>>]

FileDiff_render(f) ==
    [kind |-> "FileDiff", fold |-> fold_symbol(f.unfolded),
     lines |-> <<f.description>>]

\* what an arithmetic step gives: a number, or the panic of a build that
\* checks for overflow
Counted(n) == [res |-> "ok", why |-> "", n |-> n]
Overflow == [res |-> "panic", why |-> "overflow", n |-> 0]

\* a variant that counts the lines of a side as the difference of its ends
hunk_num_lines_Difference(start, end, overflow_checks) ==
    IF end = 0 THEN Counted(0)
    ELSE IF overflow_checks /\ U32Less(end, start) THEN Overflow
    ELSE Counted(wrapping_sub(end, start))

\* the number of lines of one side of a hunk, end - start + 1 in u32: with
\* overflow_checks (the debug build) a difference below 0 or a sum above
\* 2^32 - 1 panics, and without (the release build) it wraps
hunk_num_lines(start, end, overflow_checks) ==
    LET Sum(borrow, difference) ==
            IF overflow_checks /\ (borrow \/ difference = -1) THEN Overflow
            ELSE Counted(wrapping_inc(difference))
    IN IF end = 0 THEN Counted(0)
       ELSE Sum(U32Less(end, start), wrapping_sub(end, start))

\* a rendered item, or the panic that ended the rendering
Rendered(item) == [res |-> "ok", why |-> "", item |-> item]

\* the header "@@ -a,b +c,d @@"; the count of the red side is computed first
DiffHunk_render(h, overflow_checks) ==
    LET Header(red, green) ==
            IF red.res # "ok" THEN [res |-> red.res, why |-> red.why, item |-> <<>>]
            ELSE IF green.res # "ok"
                 THEN [res |-> green.res, why |-> green.why, item |-> <<>>]
                 ELSE Rendered([kind |-> "DiffHunk", fold |-> fold_symbol(h.unfolded),
                                lines |-> <<"@@ -" \o u32_to_string(h.red_start)
                                              \o "," \o u32_to_string(red.n)
                                              \o " +" \o u32_to_string(h.green_start)
                                              \o "," \o u32_to_string(green.n)
                                              \o " @@">>])
    IN Header(hunk_num_lines(h.red_start, h.red_end, overflow_checks),
              hunk_num_lines(h.green_start, h.green_end, overflow_checks))

DiffHunkLine_render(l) ==
    [kind |-> "DiffHunkLine", fold |-> "", lines |-> <<l.pretty_string>>]

Render(n, overflow_checks) ==
    CASE n.kind = "Commit" -> Rendered(Commit_render(n))
      [] n.kind = "InfoText" -> Rendered(InfoText_render(n))
      [] n.kind = "FileDiff" -> Rendered(FileDiff_render(n))
      [] n.kind = "DiffHunk" -> DiffHunk_render(n, overflow_checks)
      [] OTHER -> Rendered(DiffHunkLine_render(n))

(***************************************************************************)
(* The nodes, as their constructors leave them.                            *)
(***************************************************************************)
\* the characters of the class [ │├─╯╮] of the graph; the box-drawing
\* characters, which a string of this module cannot hold, are written here
\* as: │ "¦", ├ "¤", ─ "¬", ╯ "´", ╮ "¨"
GraphChars == {" ", "¦", "¤", "¬", "´", "¨"}

\* Commit::new: line1 is a header line of the log, given by what the two
\* regular expressions capture on it, and line2 the line after it as it is
\* printed ("" when there is none), be it a header itself.  Of line2, re_fields takes on the text
\* without its escape sequences the characters of the graph, "(empty)" when
\* it stands there, white space, and the description; re_lines takes on the
\* text as printed what follows the characters of the graph.
Commit_new(line1, line2) ==
    LET Description(description_string) ==
            IF description_string = "(no description set)" THEN None
            ELSE Some(description_string)
        Fields(clean, graph) ==
            LET empty == IF Sub(clean, graph + 1, Min(graph + 7, Len(clean))) = "(empty)"
                         THEN 7 ELSE 0
            IN Description(Sub(clean,
                               graph + empty
                                  + RunLen(clean, graph + empty + 1, Whitespace) + 1,
                               Len(clean)))
    IN [kind |-> "Commit",
        change_id |-> line1.change_id,
        current_working_copy |-> (line1.symbol = "@"),
        description_first_line |->
            Fields(strip_ansi(line2), RunLen(strip_ansi(line2), 1, GraphChars)),
        pretty_line1 |-> line1.text,
        pretty_line2 |-> Sub(line2, RunLen(line2, 1, GraphChars) + 1, Len(line2)),
        unfolded |-> FALSE,
        loaded |-> FALSE,
        file_diffs |-> <<>>,
        flat_log_idx |-> 0]

InfoText_new(pretty_string) ==
    [kind |-> "InfoText", pretty_string |-> pretty_string, flat_log_idx |-> 0]

\* . of the regex crate is any character but the line feed
NoLineFeed(s) == Find(s, "\n", 1) = 0

\* the captures of ^([MADRC])\s+(.+)$ on a line of the diff summary: the
\* status letter and the description after the whitespace (which is greedy,
\* and gives back its last character when nothing else is left for .+); a
\* line feed can be in the whitespace and not in the description
FileDiff_captures(clean_string) ==
    LET Captures(n, ws) ==
            IF n = 0 \/ Ch(clean_string, 1) \notin {"M", "A", "D", "R", "C"} \/ ws = 0
               \/ ~NoLineFeed(Sub(clean_string, Min(2 + ws, n), n))
            THEN None
            ELSE IF 1 + ws < n
                 THEN Some([status |-> Ch(clean_string, 1),
                            description |-> Sub(clean_string, 2 + ws, n)])
                 ELSE IF ws >= 2
                      THEN Some([status |-> Ch(clean_string, 1),
                                 description |-> Ch(clean_string, n)])
                      ELSE None
    IN Captures(Len(clean_string), RunLen(clean_string, 2, Whitespace))

\* the captures of ^(.+)\{(.+?)\s*=>\s*(.+?)\}$ on a description: p is the
\* place of the brace that ends group 1 (greedy: the last one that lets the
\* rest match), q the end of group 2 (lazy: the first one), and group 3 runs
\* from after the arrow and its whitespace to the closing brace, which has to
\* be the last character
RenameArrow(description, q) == q + 1 + RunLen(description, q + 1, Whitespace)

RenameMatch(description, p, q) ==
    LET Arrow(n, k) ==
            /\ p >= 2 /\ Ch(description, p) = "{"
            /\ q > p
            /\ k + 2 <= n - 1
            /\ Sub(description, k, k + 1) = "=>"
            /\ Ch(description, n) = "}"
            /\ NoLineFeed(Sub(description, 1, q))
            /\ NoLineFeed(Sub(description,
                              Min(k + 2 + RunLen(description, k + 2, Whitespace), n - 1),
                              n - 1))
    IN Arrow(Len(description), RenameArrow(description, q))

rename_captures(description) ==
    LET n == Len(description)
        Groups(p, q, r) ==
            Some([path_start |-> Sub(description, 1, p - 1),
                  path_old_end |-> Sub(description, p + 1, q),
                  path_new_end |-> Sub(description, r, n - 1)])
        NewEnd(k) == Min(k + 2 + RunLen(description, k + 2, Whitespace), n - 1)
        Lazy(p, q) == Groups(p, q, NewEnd(RenameArrow(description, q)))
        Greedy(p) ==
            Lazy(p, CHOOSE x \in 1..n :
                       /\ RenameMatch(description, p, x)
                       /\ \A y \in 1..n : RenameMatch(description, p, y) => x <= y)
        Braces(braces) ==
            IF braces = {} THEN None
            ELSE Greedy(CHOOSE x \in braces : \A y \in braces : y <= x)
    IN Braces({p \in 1..n : \E q \in 1..n : RenameMatch(description, p, q)})

ParseErr == [res |-> "err", why |-> "malformed", node |-> <<>>]

\* a variant of FileDiff::new that joins the start of the path with the old
\* end of a rename
FileDiff_new_OldEnd(change_id, pretty_string) ==
    LET Node(status, description, renamed) ==
            IF status \in {"R", "C"} /\ renamed = None THEN ParseErr
            ELSE [res |-> "ok", why |-> "",
                  node |-> [kind |-> "FileDiff",
                            change_id |-> change_id,
                            path |-> IF status \in {"R", "C"}
                                     THEN Unwrap(renamed).path_start
                                             \o Unwrap(renamed).path_old_end
                                     ELSE description,
                            description |-> description,
                            status |-> status,
                            unfolded |-> FALSE,
                            loaded |-> FALSE,
                            diff_hunks |-> <<>>,
                            flat_log_idx |-> 0]]
        Parsed(captures) ==
            IF captures = None THEN ParseErr
            ELSE Node(Unwrap(captures).status, Unwrap(captures).description,
                      rename_captures(Unwrap(captures).description))
    IN Parsed(FileDiff_captures(strip_ansi(pretty_string)))

\* FileDiff::new: the Err of a line that does not parse leaves through ?
FileDiff_new(change_id, pretty_string) ==
    LET Node(status, description, renamed) ==
            IF status \in {"R", "C"} /\ renamed = None THEN ParseErr
            ELSE [res |-> "ok", why |-> "",
                  node |-> [kind |-> "FileDiff",
                            change_id |-> change_id,
                            path |-> IF status \in {"R", "C"}
                                     THEN Unwrap(renamed).path_start
                                             \o Unwrap(renamed).path_new_end
                                     ELSE description,
                            description |-> description,
                            status |-> status,
                            unfolded |-> FALSE,
                            loaded |-> FALSE,
                            diff_hunks |-> <<>>,
                            flat_log_idx |-> 0]]
        Parsed(captures) ==
            IF captures = None THEN ParseErr
            ELSE Node(Unwrap(captures).status, Unwrap(captures).description,
                      rename_captures(Unwrap(captures).description))
    IN Parsed(FileDiff_captures(strip_ansi(pretty_string)))

DiffHunkLine_new(pretty_string) ==
    [kind |-> "DiffHunkLine", pretty_string |-> pretty_string, flat_log_idx |-> 0]

\* the captures of ^\s*(\d+)?\s+(\d+)?: on a line of a hunk: the number of
\* the line before and after the change, "" for a group that took nothing.
\* ws, d1, ws2 and d2 are the lengths of the runs of whitespace and digits
\* the line starts with; a first number that no whitespace follows is the
\* second group's, after whitespace the first \s* gives back.
line_nums_captures(line) ==
    LET Colon(i) == i <= Len(line) /\ Ch(line, i) = ":"
        Captures(ws, d1, ws2, d2) ==
            IF d1 > 0 /\ ws2 > 0
            THEN IF Colon(ws + d1 + ws2 + d2 + 1)
                 THEN Some([red |-> Sub(line, ws + 1, ws + d1),
                            green |-> Sub(line, ws + d1 + ws2 + 1, ws + d1 + ws2 + d2)])
                 ELSE None
            ELSE IF ws > 0 /\ Colon(ws + d1 + 1)
                 THEN Some([red |-> "", green |-> Sub(line, ws + 1, ws + d1)])
                 ELSE None
        Second(ws, d1, ws2) ==
            Captures(ws, d1, ws2, RunLen(line, ws + d1 + ws2 + 1, Digits))
        Gap(ws, d1) == Second(ws, d1, RunLen(line, ws + d1 + 1, Whitespace))
        First(ws) == Gap(ws, RunLen(line, ws + 1, Digits))
    IN First(RunLen(line, 1, Whitespace))

\* the loop of find_line_nums over the lines in the order of the search: a
\* line that is "~" is skipped, a line that does not match is an Err, and the
\* loop ends when both numbers are found
RECURSIVE find_line_nums_loop(_, _, _, _, _)
find_line_nums_loop(diff_hunk_lines, i, step, red, green) ==
    LET Found(captures) ==
            IF captures = None
            THEN [res |-> "err", red |-> red, green |-> green]
            ELSE find_line_nums_loop(
                     diff_hunk_lines, i + step, step,
                     IF red = None /\ Unwrap(captures).red # ""
                     THEN Some(Unwrap(captures).red) ELSE red,
                     IF green = None /\ Unwrap(captures).green # ""
                     THEN Some(Unwrap(captures).green) ELSE green)
        Line(line) ==
            IF line = "~"
            THEN find_line_nums_loop(diff_hunk_lines, i + step, step, red, green)
            ELSE Found(line_nums_captures(line))
    IN IF i < 1 \/ i > Len(diff_hunk_lines) \/ (red # None /\ green # None)
       THEN [res |-> "ok", red |-> red, green |-> green]
       ELSE Line(strip_ansi(diff_hunk_lines[i].pretty_string))

\* DiffHunk::find_line_nums: the first number of each side in the direction
\* of the search ("Down" from the first line, "Up" from the last), 0 for a
\* side that has none
DiffHunk_find_line_nums(diff_hunk_lines, direction) ==
    LET Numbers(res, red, green) ==
            IF res # "ok" \/ red = None \/ green = None
            THEN [res |-> "err", red |-> 0, green |-> 0]
            ELSE [res |-> "ok", red |-> Unwrap(red), green |-> Unwrap(green)]
        Parsed(found) ==
            Numbers(found.res,
                    parse_u32(IF found.red = None THEN "0" ELSE Unwrap(found.red)),
                    parse_u32(IF found.green = None THEN "0" ELSE Unwrap(found.green)))
    IN Parsed(find_line_nums_loop(diff_hunk_lines,
                                  IF direction = "Down" THEN 1 ELSE Len(diff_hunk_lines),
                                  IF direction = "Down" THEN 1 ELSE -1,
                                  None, None))

\* DiffHunk::new: the line numbers of the two ends, then the alignment of the
\* lines (ilog10 of 0 panics)
DiffHunk_new(diff_hunk_lines) ==
    LET Aligned(start, end, pad) ==
            [res |-> "ok", why |-> "",
             node |-> [kind |-> "DiffHunk",
                       unfolded |-> TRUE,
                       diff_hunk_lines |->
                           [i \in 1..Len(diff_hunk_lines) |->
                               [diff_hunk_lines[i] EXCEPT !.pretty_string =
                                   replacen_first(@, pad)]],
                       red_start |-> start.red,
                       red_end |-> end.red,
                       green_start |-> start.green,
                       green_end |-> end.green,
                       flat_log_idx |-> 0]]
        Ends(start, end, max_line_num) ==
            IF start.res # "ok" \/ end.res # "ok" THEN ParseErr
            ELSE IF max_line_num = 0
                 THEN [res |-> "panic", why |-> "ilog10", node |-> <<>>]
                 ELSE Aligned(start, end, Sub("   ", 1, SatSub(3, ilog10(max_line_num))))
        Found(start, end) == Ends(start, end, u32_max(end.red, end.green))
    IN Found(DiffHunk_find_line_nums(diff_hunk_lines, "Down"),
             DiffHunk_find_line_nums(diff_hunk_lines, "Up"))

(***************************************************************************)
(* The loaders.  outcome is what the collaborator does with the query:     *)
(* "ok", "failed" (it ran and exited non-zero: JjCommandError::Failed),    *)
(* "other" (it could not be invoked: JjCommandError::Other) or             *)
(* "malformed" (it answered with text the parser rejects).  Every kind of  *)
(* failure leaves a loader through the ? operator, as an Err.              *)
(***************************************************************************)
LoadErr(outcome) ==
    [res |-> "err", why |-> outcome, nodes |-> <<>>]

\* CommitOrText::load_all, the loop over the lines of the log
RECURSIVE CommitOrText_pair(_, _, _)
CommitOrText_pair(lines, i, acc) ==
    IF i > Len(lines) THEN acc
    ELSE IF ~lines[i].hdr
         THEN CommitOrText_pair(lines, i + 1, Append(acc, InfoText_new(lines[i].text)))
         ELSE LET line2 == IF i + 1 <= Len(lines) THEN lines[i + 1].line ELSE ""
              IN CommitOrText_pair(lines, i + 2, Append(acc, Commit_new(lines[i], line2)))

\* a line of the log as the collaborator prints it: a header line is the
\* symbol of the change, two spaces, and the text after them
jj_log_line(l) == IF l.hdr THEN l.symbol \o "  " \o l.text ELSE l.text

\* what the collaborator prints for jj log: the lines of the log of w
jj_log_output(w) == [i \in 1..Len(w.log) |-> jj_log_line(w.log[i])]

\* output.trim().lines() of the log, each line (line) with what the world
\* says of it: whether it is a header, and then the change, the symbol and
\* the text after the symbol
log_lines(w) ==
    LET Line(l, line) ==
            [hdr |-> l.hdr, change_id |-> l.change_id, symbol |-> l.symbol,
             text |-> IF l.hdr THEN Sub(line, Len(l.symbol) + 3, Len(line)) ELSE line,
             line |-> line]
        Lines(texts, first) ==
            [i \in 1..Len(texts) |-> Line(w.log[first + i - 1], texts[i])]
        Kept(keep) ==
            Lines(trim_lines(jj_log_output(w)),
                  IF keep = {} THEN 1 ELSE CHOOSE a \in keep : \A k \in keep : a <= k)
    IN Kept({i \in 1..Len(w.log) : trim(jj_log_line(w.log[i])) # ""})

CommitOrText_load_all(w, outcome) ==
    IF outcome # "ok" THEN LoadErr(outcome)
    ELSE [res |-> "ok", why |-> "", nodes |-> CommitOrText_pair(log_lines(w), 1, <<>>)]

FilesOf(w, change_id) ==
    IF change_id \in DOMAIN w.files THEN w.files[change_id] ELSE <<>>

\* what the collaborator prints for jj diff --summary: a line per file
diff_summary(w, change_id) ==
    LET Lines(files) == [i \in 1..Len(files) |-> files[i].line]
    IN Lines(FilesOf(w, change_id))

\* the loop of FileDiff::load_all over the lines of the output
RECURSIVE FileDiff_load_lines(_, _, _, _)
FileDiff_load_lines(change_id, lines, i, file_diffs) ==
    LET Next(r) ==
            IF r.res # "ok" THEN LoadErr(r.why)
            ELSE FileDiff_load_lines(change_id, lines, i + 1, Append(file_diffs, r.node))
    IN IF i > Len(lines) THEN [res |-> "ok", why |-> "", nodes |-> file_diffs]
       ELSE Next(FileDiff_new(change_id, lines[i]))

FileDiff_load_all(w, change_id, outcome) ==
    IF outcome # "ok" THEN LoadErr(outcome)
    ELSE FileDiff_load_lines(change_id, trim_lines(diff_summary(w, change_id)), 1, <<>>)

\* what the collaborator prints for jj diff of a file: a header line, then
\* the lines of the hunks with a line of dots between two hunks; nothing for
\* a path the change has no file at
\* a line number in its column of four characters, blank for no number, and
\* in colour when the line is on one side only
NumCol(n, colour) ==
    LET Column(digits) ==
            IF colour = "" THEN digits ELSE ESC \o colour \o digits \o ESC \o "[39m"
        Right(number) == Column(Sub("    ", 1, SatSub(4, Len(number))) \o number)
    IN IF n = 0 THEN "    " ELSE Right(to_string(n))

\* a line of a hunk as jj prints it: the number of the line before and after
\* the change, a colon, and the text
FormatLine(l) ==
    NumCol(l.before, IF l.after = 0 THEN "[31m" ELSE "")
       \o " " \o NumCol(l.after, IF l.before = 0 THEN "[32m" ELSE "")
       \o ": " \o l.text

RECURSIVE JoinHunks(_, _)
JoinHunks(blocks, i) ==
    IF i > Len(blocks) THEN <<>>
    ELSE (IF i > 1 THEN <<"    ...">> ELSE <<>>)
            \o [j \in 1..Len(blocks[i]) |-> FormatLine(blocks[i][j])]
            \o JoinHunks(blocks, i + 1)

diff_file(w, change_id, file) ==
    LET Printed(files, hit) ==
            IF hit = {} THEN <<>>
            ELSE <<"Modified regular file " \o file \o ":">>
                    \o JoinHunks(files[CHOOSE i \in hit : TRUE].hunks, 1)
        Files(files) == Printed(files, {i \in 1..Len(files) : files[i].path = file})
    IN Files(FilesOf(w, change_id))

\* Regex::is_match of \s*\.\.\.\s*, which is not anchored
is_separator(clean_line) == Find(clean_line, "...", 1) # 0

\* push_diff_hunk: a hunk of the lines gathered, when there are any
push_diff_hunk(acc, diff_hunk_lines) ==
    LET Pushed(r) ==
            IF r.res # "ok" THEN [res |-> r.res, why |-> r.why, nodes |-> <<>>]
            ELSE [acc EXCEPT !.nodes = Append(@, r.node)]
    IN IF acc.res # "ok" \/ diff_hunk_lines = <<>> THEN acc
       ELSE Pushed(DiffHunk_new(diff_hunk_lines))

\* the loop of DiffHunk::load_all over the lines after the header
RECURSIVE DiffHunk_load_lines(_, _, _, _)
DiffHunk_load_lines(output_lines, i, acc, diff_hunk_lines) ==
    IF acc.res # "ok" THEN acc
    ELSE IF i > Len(output_lines) THEN push_diff_hunk(acc, diff_hunk_lines)
    ELSE IF is_separator(strip_ansi(output_lines[i]))
         THEN DiffHunk_load_lines(output_lines, i + 1,
                                  push_diff_hunk(acc, diff_hunk_lines), <<>>)
         ELSE DiffHunk_load_lines(output_lines, i + 1, acc,
                                  Append(diff_hunk_lines,
                                         DiffHunkLine_new(output_lines[i])))

\* DiffHunk::load_all: one hunk per non-empty block of lines, and the divider
\* pushed onto the last hunk (last_mut().unwrap() panics when there is none)
DiffHunk_load_all(w, change_id, path, outcome) ==
    LET Divided(r, n) ==
            IF r.res # "ok" THEN r
            ELSE IF n = 0 THEN [res |-> "panic", why |-> "unwrap", nodes |-> <<>>]
            ELSE [r EXCEPT !.nodes[n].diff_hunk_lines =
                     Append(@, DiffHunkLine_new(ESC \o "[35m~" \o ESC \o "[0m"))]
        Hunks(r) == Divided(r, Len(r.nodes))
        Lines(output) ==
            Hunks(DiffHunk_load_lines(SubSeq(output, 2, Len(output)), 1,
                                      [res |-> "ok", why |-> "", nodes |-> <<>>], <<>>))
    IN IF outcome # "ok" THEN LoadErr(outcome)
       ELSE Lines(trim_lines(diff_file(w, change_id, path)))

(***************************************************************************)
(* The flattener.  acc holds the two lists a pass builds, the build the    *)
(* pass runs in, and the panic of a render, after which nothing is pushed. *)
(***************************************************************************)
Push(acc, node, tree_pos) ==
    LET Item(r) ==
            IF r.res # "ok" THEN [acc EXCEPT !.res = r.res, !.why = r.why]
            ELSE [acc EXCEPT !.log_list = Append(acc.log_list, r.item),
                             !.positions = Append(acc.positions, tree_pos)]
    IN IF acc.res # "ok" THEN acc ELSE Item(Render(node, acc.overflow_checks))

\* a node with the flat index the pass gives it
Indexed(node, acc) == [node EXCEPT !.flat_log_idx = Len(acc.log_list)]

\* a variant that records the position of the hunk for each of its lines
DiffHunkLine_flatten_ParentPos(node, tree_pos, acc) ==
    [node |-> Indexed(node, acc), acc |-> Push(acc, node, Front(tree_pos))]

DiffHunkLine_flatten(node, tree_pos, acc) ==
    [node |-> Indexed(node, acc),
     acc |-> Push(acc, node, tree_pos)]

InfoText_flatten(node, tree_pos, acc) ==
    [node |-> Indexed(node, acc),
     acc |-> Push(acc, node, tree_pos)]

\* the loop of DiffHunk::flatten over its lines: child i-1 gets tree_pos + [i-1]
RECURSIVE DiffHunk_flatten_children(_, _, _, _)
DiffHunk_flatten_children(nodes, i, tree_pos, acc) ==
    IF i > Len(nodes) THEN [nodes |-> nodes, acc |-> acc]
    ELSE LET Rest(r) ==
                 DiffHunk_flatten_children([nodes EXCEPT ![i] = r.node], i + 1,
                                           tree_pos, r.acc)
         IN Rest(DiffHunkLine_flatten(nodes[i], Append(tree_pos, i - 1), acc))

DiffHunk_flatten(node, tree_pos, acc) ==
    IF ~node.unfolded
    THEN [node |-> Indexed(node, acc), acc |-> Push(acc, node, tree_pos)]
    ELSE LET Rest(r) ==
                 [node |-> [Indexed(node, acc) EXCEPT !.diff_hunk_lines = r.nodes],
                  acc |-> r.acc]
         IN Rest(DiffHunk_flatten_children(node.diff_hunk_lines, 1, tree_pos,
                                           Push(acc, node, tree_pos)))

RECURSIVE FileDiff_flatten_children(_, _, _, _)
FileDiff_flatten_children(nodes, i, tree_pos, acc) ==
    IF i > Len(nodes) THEN [nodes |-> nodes, acc |-> acc]
    ELSE LET Rest(r) ==
                 FileDiff_flatten_children([nodes EXCEPT ![i] = r.node], i + 1,
                                           tree_pos, r.acc)
         IN Rest(DiffHunk_flatten(nodes[i], Append(tree_pos, i - 1), acc))

\* a variant that lists the hunks of a file whether it is folded or not
FileDiff_flatten_Unfolded(node, tree_pos, acc) ==
    LET Rest(r) ==
            [node |-> [Indexed(node, acc) EXCEPT !.diff_hunks = r.nodes],
             acc |-> r.acc]
    IN Rest(FileDiff_flatten_children(node.diff_hunks, 1, tree_pos,
                                      Push(acc, node, tree_pos)))

FileDiff_flatten(node, tree_pos, acc) ==
    IF ~node.unfolded
    THEN [node |-> Indexed(node, acc), acc |-> Push(acc, node, tree_pos)]
    ELSE LET Rest(r) ==
                 [node |-> [Indexed(node, acc) EXCEPT !.diff_hunks = r.nodes],
                  acc |-> r.acc]
         IN Rest(FileDiff_flatten_children(node.diff_hunks, 1, tree_pos,
                                           Push(acc, node, tree_pos)))

RECURSIVE Commit_flatten_children(_, _, _, _)
Commit_flatten_children(nodes, i, tree_pos, acc) ==
    IF i > Len(nodes) THEN [nodes |-> nodes, acc |-> acc]
    ELSE LET Rest(r) ==
                 Commit_flatten_children([nodes EXCEPT ![i] = r.node], i + 1,
                                         tree_pos, r.acc)
         IN Rest(FileDiff_flatten(nodes[i], Append(tree_pos, i - 1), acc))

Commit_flatten(node, tree_pos, acc) ==
    IF ~node.unfolded
    THEN [node |-> Indexed(node, acc), acc |-> Push(acc, node, tree_pos)]
    ELSE LET Rest(r) ==
                 [node |-> [Indexed(node, acc) EXCEPT !.file_diffs = r.nodes],
                  acc |-> r.acc]
         IN Rest(Commit_flatten_children(node.file_diffs, 1, tree_pos,
                                         Push(acc, node, tree_pos)))

CommitOrText_flatten(node, tree_pos, acc) ==
    IF node.kind = "Commit" THEN Commit_flatten(node, tree_pos, acc)
    ELSE InfoText_flatten(node, tree_pos, acc)

\* the loop of JjLog::flatten_log over the top-level entries
RECURSIVE flatten_log_entries(_, _, _)
flatten_log_entries(nodes, i, acc) ==
    IF i > Len(nodes) THEN [nodes |-> nodes, acc |-> acc]
    ELSE LET Rest(r) ==
                 flatten_log_entries([nodes EXCEPT ![i] = r.node], i + 1, r.acc)
         IN Rest(CommitOrText_flatten(nodes[i], <<i - 1>>, acc))

\* JjLog::flatten_log: the tree with its flat indices refreshed, and the two lists
flatten_log(log_tree, overflow_checks) ==
    LET Lists(r) ==
            [res |-> r.acc.res, why |-> r.acc.why,
             log_tree |-> r.nodes, log_list |-> r.acc.log_list,
             positions |-> r.acc.positions]
    IN Lists(flatten_log_entries(log_tree, 1,
                                 [res |-> "ok", why |-> "",
                                  overflow_checks |-> overflow_checks,
                                  log_list |-> <<>>, positions |-> <<>>]))

(***************************************************************************)
(* Looking a node up by its tree position (JjLog::get_tree_node).  The     *)
(* code returns a mutable reference; the model returns the node and, in    *)
(* at, the position the reference points to, which SetNode writes through. *)
(***************************************************************************)
InRange(s, idx) == idx >= 0 /\ idx < Len(s)

NodeOk(node, at) == [res |-> "ok", why |-> "", node |-> node, at |-> at]
NodeErr(why) == [res |-> "err", why |-> why, node |-> <<>>, at |-> <<>>]
NodePanic == [res |-> "panic", why |-> "index", node |-> <<>>, at |-> <<>>]

get_tree_node(log_tree, tree_pos) ==
    IF Len(tree_pos) = 0 \/ ~InRange(log_tree, tree_pos[1]) THEN NodePanic
    ELSE LET commit == log_tree[tree_pos[1] + 1] IN
    IF commit.kind = "InfoText" THEN NodeOk(commit, SubSeq(tree_pos, 1, 1))
    ELSE IF Len(tree_pos) <= FILE_DIFF_IDX THEN NodeOk(commit, SubSeq(tree_pos, 1, 1))
    ELSE IF ~commit.loaded THEN NodeErr("bail")
    ELSE IF ~InRange(commit.file_diffs, tree_pos[2]) THEN NodePanic
    ELSE LET file_diff == commit.file_diffs[tree_pos[2] + 1] IN
    IF Len(tree_pos) <= DIFF_HUNK_IDX THEN NodeOk(file_diff, SubSeq(tree_pos, 1, 2))
    ELSE IF ~file_diff.loaded THEN NodeErr("bail")
    ELSE IF ~InRange(file_diff.diff_hunks, tree_pos[3]) THEN NodePanic
    ELSE LET diff_hunk == file_diff.diff_hunks[tree_pos[3] + 1] IN
    IF Len(tree_pos) <= DIFF_HUNK_LINE_IDX THEN NodeOk(diff_hunk, SubSeq(tree_pos, 1, 3))
    ELSE IF ~InRange(diff_hunk.diff_hunk_lines, tree_pos[4]) THEN NodePanic
    ELSE NodeOk(diff_hunk.diff_hunk_lines[tree_pos[4] + 1], SubSeq(tree_pos, 1, 4))

\* the write through the reference get_tree_node returned for position at
SetNode(log_tree, at, node) ==
    CASE Len(at) = 1 -> [log_tree EXCEPT ![at[1] + 1] = node]
      [] Len(at) = 2 -> [log_tree EXCEPT ![at[1] + 1].file_diffs[at[2] + 1] = node]
      [] Len(at) = 3 ->
            [log_tree EXCEPT
                ![at[1] + 1].file_diffs[at[2] + 1].diff_hunks[at[3] + 1] = node]
      [] OTHER ->
            [log_tree EXCEPT
                ![at[1] + 1].file_diffs[at[2] + 1].diff_hunks[at[3] + 1]
                    .diff_hunk_lines[at[4] + 1] = node]

\* LogTreeNode::children
children(node) ==
    CASE node.kind = "Commit" -> node.file_diffs
      [] node.kind = "FileDiff" -> node.diff_hunks
      [] node.kind = "DiffHunk" -> node.diff_hunk_lines
      [] OTHER -> <<>>

\* JjLog::get_current_commit: the first Commit with the working-copy flag
get_current_commit(log_tree) ==
    LET hit == {i \in 1..Len(log_tree) :
                   log_tree[i].kind = "Commit" /\ log_tree[i].current_working_copy}
    IN IF hit = {} THEN None
       ELSE Some(log_tree[CHOOSE i \in hit : \A j \in hit : i <= j])

\* JjLog::get_tree_commit
get_tree_commit(log_tree, tree_pos) ==
    LET commit_or_text == log_tree[tree_pos[1] + 1]
    IN IF commit_or_text.kind = "InfoText" THEN None ELSE Some(commit_or_text)

\* JjLog::get_tree_file_diff
get_tree_file_diff(log_tree, tree_pos) ==
    IF Len(tree_pos) <= FILE_DIFF_IDX THEN None
    ELSE LET commit == get_tree_commit(log_tree, tree_pos)
         IN IF commit = None THEN None
            ELSE Some(Unwrap(commit).file_diffs[tree_pos[2] + 1])

(***************************************************************************)
(* Fold toggles.  Each returns the node as the call leaves it, also when   *)
(* it returns an Err, and the queries it sent to the collaborator.         *)
(***************************************************************************)
Toggled(res, why, node, queries) ==
    [res |-> res, why |-> why, node |-> node, queries |-> queries]

\* a variant without the memo: every unfold fetches the file diffs again
Commit_toggle_fold_Reload(self, w, outcome) ==
    LET n1 == [self EXCEPT !.unfolded = ~self.unfolded]
        Loaded(r) ==
            IF r.res # "ok" THEN Toggled(r.res, r.why, n1, <<"diff_summary">>)
            ELSE Toggled("ok", "",
                         [n1 EXCEPT !.file_diffs = r.nodes, !.loaded = TRUE],
                         <<"diff_summary">>)
    IN IF ~n1.unfolded THEN Toggled("ok", "", n1, <<>>)
       ELSE Loaded(FileDiff_load_all(w, n1.change_id, outcome))

Commit_toggle_fold(self, w, outcome) ==
    LET n1 == [self EXCEPT !.unfolded = ~self.unfolded]
        Loaded(r) ==
            IF r.res # "ok" THEN Toggled(r.res, r.why, n1, <<"diff_summary">>)
            ELSE Toggled("ok", "",
                         [n1 EXCEPT !.file_diffs = r.nodes, !.loaded = TRUE],
                         <<"diff_summary">>)
    IN IF ~n1.unfolded THEN Toggled("ok", "", n1, <<>>)
       ELSE IF ~n1.loaded THEN Loaded(FileDiff_load_all(w, n1.change_id, outcome))
       ELSE Toggled("ok", "", n1, <<>>)

InfoText_toggle_fold(self, w, outcome) == Toggled("ok", "", self, <<>>)

\* a variant without the memo: every toggle fetches the hunks again
FileDiff_toggle_fold_Reload(self, w, outcome) ==
    LET n1 == [self EXCEPT !.unfolded = ~self.unfolded]
        Loaded(r) ==
            IF r.res # "ok" THEN Toggled(r.res, r.why, n1, <<"diff_file">>)
            ELSE Toggled("ok", "",
                         [n1 EXCEPT !.diff_hunks = r.nodes, !.loaded = TRUE],
                         <<"diff_file">>)
    IN Loaded(DiffHunk_load_all(w, n1.change_id, n1.path, outcome))

FileDiff_toggle_fold(self, w, outcome) ==
    LET n1 == [self EXCEPT !.unfolded = ~self.unfolded]
        Loaded(r) ==
            IF r.res # "ok" THEN Toggled(r.res, r.why, n1, <<"diff_file">>)
            ELSE Toggled("ok", "",
                         [n1 EXCEPT !.diff_hunks = r.nodes, !.loaded = TRUE],
                         <<"diff_file">>)
    IN IF ~n1.loaded THEN Loaded(DiffHunk_load_all(w, n1.change_id, n1.path, outcome))
       ELSE Toggled("ok", "", n1, <<>>)

DiffHunk_toggle_fold(self, w, outcome) ==
    Toggled("ok", "", [self EXCEPT !.unfolded = ~self.unfolded], <<>>)

DiffHunkLine_toggle_fold(self, w, outcome) == Toggled("ok", "", self, <<>>)

\* the dispatch of node.toggle_fold over the kinds of node
LogTreeNode_toggle_fold(node, w, outcome) ==
    CASE node.kind = "Commit" -> Commit_toggle_fold(node, w, outcome)
      [] node.kind = "InfoText" -> InfoText_toggle_fold(node, w, outcome)
      [] node.kind = "FileDiff" -> FileDiff_toggle_fold(node, w, outcome)
      [] node.kind = "DiffHunk" -> DiffHunk_toggle_fold(node, w, outcome)
      [] OTHER -> DiffHunkLine_toggle_fold(node, w, outcome)

\* a variant that toggles the node at the position itself, whatever its depth
JjLog_toggle_fold_NoTruncate(log_tree, w, tree_pos, outcome) ==
    LET Write(got, t) ==
            [res |-> t.res, why |-> t.why,
             log_tree |-> SetNode(log_tree, got.at, t.node),
             idx |-> t.node.flat_log_idx, queries |-> t.queries]
        Toggle(got) ==
            IF got.res # "ok"
            THEN [res |-> got.res, why |-> got.why, log_tree |-> log_tree,
                  idx |-> 0, queries |-> <<>>]
            ELSE Write(got, LogTreeNode_toggle_fold(got.node, w, outcome))
    IN Toggle(get_tree_node(log_tree, tree_pos))

\* JjLog::toggle_fold: the tree as the call leaves it and the flat index of the node
JjLog_toggle_fold(log_tree, w, tree_pos, outcome) ==
    LET Write(got, t) ==
            [res |-> t.res, why |-> t.why,
             log_tree |-> SetNode(log_tree, got.at, t.node),
             idx |-> t.node.flat_log_idx, queries |-> t.queries]
        Toggle(got) ==
            IF got.res # "ok"
            THEN [res |-> got.res, why |-> got.why, log_tree |-> log_tree,
                  idx |-> 0, queries |-> <<>>]
            ELSE Write(got, LogTreeNode_toggle_fold(got.node, w, outcome))
    IN Toggle(get_tree_node(log_tree, Truncate(tree_pos, DIFF_HUNK_IDX + 1)))


(***************************************************************************)
(* The Model (model.rs).  A handler returns the Model as it leaves it, the *)
(* kind of its return (res, why) and the queries it sent.                  *)
(***************************************************************************)
LOG_LIST_SCROLL_PADDING == 0

Done(m, queries) == [res |-> "ok", why |-> "", m |-> m, queries |-> queries]
Fail(res, why, m, queries) == [res |-> res, why |-> why, m |-> m, queries |-> queries]

log_offset(m) == m.log_list_state.offset

\* ListState::select(Some(idx))
log_select(m, idx) == [m EXCEPT !.log_list_state.selected = Some(idx)]

\* get_selected_tree_position indexes the positions with selected().unwrap()
SelectedOk(m) ==
    /\ IsSome(m.log_list_state.selected)
    /\ InRange(m.log_list_tree_positions, Unwrap(m.log_list_state.selected))

log_selected(m) == Unwrap(m.log_list_state.selected)

get_selected_tree_position(m) == m.log_list_tree_positions[log_selected(m) + 1]

\* a variant that stores the two lists of the pass and leaves the tree with
\* the flat indices it had
sync_log_list_StaleTree(m, overflow_checks) ==
    Only({IF f.res # "ok" THEN Fail(f.res, f.why, m, <<>>)
          ELSE Done([m EXCEPT !.log_list = f.log_list,
                              !.log_list_tree_positions = f.positions], <<>>) :
             f \in {flatten_log(m.jj_log.log_tree, overflow_checks)}})

\* the lists are stored once the pass is over: a pass that panics leaves the
\* tree with the flat indices it has written and the lists as they were
sync_log_list(m, overflow_checks) ==
    Only({IF f.res # "ok"
          THEN Fail(f.res, f.why, [m EXCEPT !.jj_log.log_tree = f.log_tree], <<>>)
          ELSE Done([m EXCEPT !.jj_log.log_tree = f.log_tree,
                              !.log_list = f.log_list,
                              !.log_list_tree_positions = f.positions], <<>>) :
             f \in {flatten_log(m.jj_log.log_tree, overflow_checks)}})

toggle_current_fold(m, w, outcome) ==
    IF ~SelectedOk(m) THEN Fail("panic", "index", m, <<>>)
    ELSE Only({IF r.res # "ok"
               THEN Fail(r.res, r.why, [m EXCEPT !.jj_log.log_tree = r.log_tree],
                         r.queries)
               ELSE Only({IF s.res # "ok" THEN Fail(s.res, s.why, s.m, r.queries)
                          ELSE Done(log_select(s.m, r.idx), r.queries) :
                             s \in {sync_log_list([m EXCEPT !.jj_log.log_tree = r.log_tree],
                                                  w.overflow_checks)}}) :
                  r \in {JjLog_toggle_fold(m.jj_log.log_tree, w,
                                           get_selected_tree_position(m), outcome)}})

\* a variant that starts on the first entry, whichever change is the working copy
reset_log_list_selection_First(m, w, outcome) ==
    toggle_current_fold(log_select(m, 0), w, outcome)

\* a variant that toggles only the fold of the working copy
reset_log_list_selection_OnlyCurrent(m, w, outcome) ==
    LET commit == get_current_commit(m.jj_log.log_tree)
    IN IF commit = None THEN Done(log_select(m, 0), <<>>)
       ELSE toggle_current_fold(log_select(m, Unwrap(commit).flat_log_idx), w, outcome)

reset_log_list_selection(m, w, outcome) ==
    LET commit == get_current_commit(m.jj_log.log_tree)
        list_idx == IF commit = None THEN 0 ELSE Unwrap(commit).flat_log_idx
    IN toggle_current_fold(log_select(m, list_idx), w, outcome)

\* a variant of sync that keeps the tree it has, once it has one
sync_KeepsTree(m, w, oc) ==
    LET Logged(t) == [t EXCEPT !.queries = <<"log">> \o t.queries]
        Kept(r) == IF m.jj_log.log_tree = <<>> THEN r.nodes ELSE m.jj_log.log_tree
    IN Only({IF r.res # "ok" THEN Fail(r.res, r.why, m, <<"log">>)
             ELSE Only({IF s.res # "ok" THEN Fail(s.res, s.why, s.m, <<"log">>)
                        ELSE Logged(reset_log_list_selection(s.m, w, oc.load)) :
                           s \in {sync_log_list([m EXCEPT !.jj_log.log_tree = Kept(r)],
                                                w.overflow_checks)}}) :
                r \in {CommitOrText_load_all(w, oc.log)}})

\* oc.log and oc.load are the outcomes of the log query and of the child load
sync(m, w, oc) ==
    LET Logged(t) == [t EXCEPT !.queries = <<"log">> \o t.queries]
    IN Only({IF r.res # "ok" THEN Fail(r.res, r.why, m, <<"log">>)
             ELSE Only({IF s.res # "ok" THEN Fail(s.res, s.why, s.m, <<"log">>)
                        ELSE Logged(reset_log_list_selection(s.m, w, oc.load)) :
                           s \in {sync_log_list([m EXCEPT !.jj_log.log_tree = r.nodes],
                                                w.overflow_checks)}}) :
                r \in {CommitOrText_load_all(w, oc.log)}})

quit(m) == [m EXCEPT !.state = "Quit"]

toggle_ignore_immutable(m) ==
    [m EXCEPT !.global_args.ignore_immutable = ~m.global_args.ignore_immutable]

\* a variant of clear that leaves the pending keys
clear_KeepsKeys(m) == [m EXCEPT !.info_list = None]

clear(m) == [m EXCEPT !.info_list = None, !.command_keys = <<>>]

(***************************************************************************)
(* Navigation.                                                             *)
(***************************************************************************)
\* selected().unwrap() < log_list.len() - 1, then ListState::select_next
select_next_node(m) ==
    IF m.log_list_state.selected = None \/ Len(m.log_list) = 0
    THEN Fail("panic", "unwrap", m, <<>>)
    ELSE IF log_selected(m) < Len(m.log_list) - 1
         THEN Done(log_select(m, log_selected(m) + 1), <<>>)
         ELSE Done(m, <<>>)

select_prev_node(m) ==
    IF m.log_list_state.selected = None THEN Fail("panic", "unwrap", m, <<>>)
    ELSE IF log_selected(m) > 0
         THEN Done(log_select(m, log_selected(m) - 1), <<>>)
         ELSE Done(m, <<>>)

select_current_working_copy(m) ==
    LET commit == get_current_commit(m.jj_log.log_tree)
    IN IF commit = None THEN Done(m, <<>>)
       ELSE Done(log_select(m, Unwrap(commit).flat_log_idx), <<>>)

\* a variant that selects the top-level entry the selected node is under
select_parent_node_TopLevel(m) ==
    IF ~SelectedOk(m) THEN Fail("panic", "index", m, <<>>)
    ELSE LET got == get_tree_node(m.jj_log.log_tree,
                                  Truncate(get_selected_tree_position(m), 1))
         IN IF got.res # "ok" THEN Fail(got.res, got.why, m, <<>>)
            ELSE Done(log_select(m, got.node.flat_log_idx), <<>>)

select_parent_node(m) ==
    IF ~SelectedOk(m) THEN Fail("panic", "index", m, <<>>)
    ELSE LET parent_pos == get_parent_tree_position(get_selected_tree_position(m))
         IN IF parent_pos = None THEN Done(m, <<>>)
            ELSE LET got == get_tree_node(m.jj_log.log_tree, Unwrap(parent_pos))
                 IN IF got.res # "ok" THEN Fail(got.res, got.why, m, <<>>)
                    ELSE Done(log_select(m, got.node.flat_log_idx), <<>>)

\* a variant that selects the item after the selected one
select_next_sibling_node_NextItem(m, tree_pos0) ==
    Done(log_select(m, Min(log_selected(m) + 1, Len(m.log_list) - 1)), <<>>)

RECURSIVE select_next_sibling_node(_, _)
select_next_sibling_node(m, tree_pos0) ==
    LET tree_pos == IF Len(tree_pos0) = DIFF_HUNK_LINE_IDX + 1
                    THEN Unwrap(get_parent_tree_position(tree_pos0))
                    ELSE tree_pos0
        idx == Last(tree_pos)
        parent_pos == get_parent_tree_position(tree_pos)
        log_tree == m.jj_log.log_tree
    IN IF parent_pos # None
       THEN LET got == get_tree_node(log_tree, Unwrap(parent_pos))
            IN IF got.res # "ok" THEN Fail(got.res, got.why, m, <<>>)
               ELSE LET ch == children(got.node)
                    IN IF Len(ch) = 0 THEN Fail("panic", "underflow", m, <<>>)
                       ELSE IF idx = Len(ch) - 1
                            THEN select_next_sibling_node(m, Unwrap(parent_pos))
                            ELSE LET sibling_idx == Min(idx + 1, Len(ch) - 1)
                                 IN Done(log_select(m, ch[sibling_idx + 1].flat_log_idx),
                                         <<>>)
       ELSE IF Len(log_tree) = 0 THEN Fail("panic", "underflow", m, <<>>)
            ELSE LET sibling_idx == Min(idx + 1, Len(log_tree) - 1)
                 IN Done(log_select(m, log_tree[sibling_idx + 1].flat_log_idx), <<>>)

\* a variant that wraps around from the last top-level entry to the first
select_current_next_sibling_node_Wrap(m) ==
    IF ~SelectedOk(m) THEN Fail("panic", "index", m, <<>>)
    ELSE LET tree_pos == get_selected_tree_position(m)
             log_tree == m.jj_log.log_tree
         IN IF Len(tree_pos) = 1 /\ tree_pos[1] = Len(log_tree) - 1
            THEN Done(log_select(m, log_tree[1].flat_log_idx), <<>>)
            ELSE select_next_sibling_node(m, tree_pos)

\* a variant that stays on the last child instead of going up to the parent
select_current_next_sibling_node_Clamp(m) ==
    IF ~SelectedOk(m) THEN Fail("panic", "index", m, <<>>)
    ELSE LET tree_pos == Truncate(get_selected_tree_position(m), DIFF_HUNK_IDX + 1)
             parent == get_tree_node(m.jj_log.log_tree, Front(tree_pos))
         IN IF Len(tree_pos) > 1 /\ parent.res = "ok"
               /\ Last(tree_pos) = Len(children(parent.node)) - 1
            THEN Done(log_select(m, get_tree_node(m.jj_log.log_tree, tree_pos)
                                        .node.flat_log_idx), <<>>)
            ELSE select_next_sibling_node(m, tree_pos)

select_current_next_sibling_node(m) ==
    IF ~SelectedOk(m) THEN Fail("panic", "index", m, <<>>)
    ELSE select_next_sibling_node(m, get_selected_tree_position(m))

select_prev_sibling_node(m, tree_pos) ==
    LET log_tree == m.jj_log.log_tree IN
    IF Len(tree_pos) = DIFF_HUNK_LINE_IDX + 1
    THEN LET got == get_tree_node(log_tree, Unwrap(get_parent_tree_position(tree_pos)))
         IN IF got.res # "ok" THEN Fail(got.res, got.why, m, <<>>)
            ELSE Done(log_select(m, got.node.flat_log_idx), <<>>)
    ELSE LET idx == Last(tree_pos)
             parent_pos == get_parent_tree_position(tree_pos)
         IN IF parent_pos # None
            THEN LET got == get_tree_node(log_tree, Unwrap(parent_pos))
                 IN IF got.res # "ok" THEN Fail(got.res, got.why, m, <<>>)
                    ELSE IF idx = 0
                         THEN Done(log_select(m, got.node.flat_log_idx), <<>>)
                         ELSE Done(log_select(m, children(got.node)[idx].flat_log_idx),
                                   <<>>)
            ELSE LET sibling_idx == SatSub(idx, 1)
                 IN Done(log_select(m, log_tree[sibling_idx + 1].flat_log_idx), <<>>)

\* a variant that goes one level up from a first child with the parent as the
\* new subject
select_current_prev_sibling_node_Recurse(m) ==
    IF ~SelectedOk(m) THEN Fail("panic", "index", m, <<>>)
    ELSE LET tree_pos == get_selected_tree_position(m)
         IN IF Len(tree_pos) > 1 /\ Last(tree_pos) = 0
            THEN select_prev_sibling_node(m, Front(tree_pos))
            ELSE select_prev_sibling_node(m, tree_pos)

\* a variant that walks up from a DiffHunkLine to its DiffHunk and applies
\* the sibling logic to the hunk
select_current_prev_sibling_node_WalkUp(m) ==
    IF ~SelectedOk(m) THEN Fail("panic", "index", m, <<>>)
    ELSE LET tree_pos == get_selected_tree_position(m)
         IN select_prev_sibling_node(m, Truncate(tree_pos, DIFF_HUNK_IDX + 1))

select_current_prev_sibling_node(m) ==
    IF ~SelectedOk(m) THEN Fail("panic", "index", m, <<>>)
    ELSE select_prev_sibling_node(m, get_selected_tree_position(m))


(***************************************************************************)
(* Viewport and scrolling.  usize arithmetic that would go below zero is a *)
(* panic (the overflow check of the default build).                        *)
(***************************************************************************)
\* the loop of line_dist_to_dest_node
\* a variant of the walk that stops when the lines traversed reach the distance
RECURSIVE line_dist_walk_AtLeast(_, _, _, _, _)
line_dist_walk_AtLeast(log_list, line_dist, current_node, traversed, direction) ==
    IF ~InRange(log_list, current_node) THEN [res |-> "panic", node |-> 0]
    ELSE LET lines_traversed == traversed + Len(log_list[current_node + 1].lines)
             at_end == IF direction = "Down" THEN current_node = Len(log_list) - 1
                                             ELSE current_node = 0
         IN IF at_end \/ lines_traversed >= line_dist
            THEN [res |-> "ok", node |-> current_node]
            ELSE line_dist_walk_AtLeast(log_list, line_dist,
                                        IF direction = "Down" THEN current_node + 1
                                                              ELSE current_node - 1,
                                        lines_traversed, direction)

RECURSIVE line_dist_walk(_, _, _, _, _)
line_dist_walk(log_list, line_dist, current_node, traversed, direction) ==
    IF ~InRange(log_list, current_node) THEN [res |-> "panic", node |-> 0]
    ELSE LET lines_traversed == traversed + Len(log_list[current_node + 1].lines)
             at_end == IF direction = "Down" THEN current_node = Len(log_list) - 1
                                             ELSE current_node = 0
         IN IF at_end \/ lines_traversed > line_dist
            THEN [res |-> "ok", node |-> current_node]
            ELSE line_dist_walk(log_list, line_dist,
                                IF direction = "Down" THEN current_node + 1
                                                      ELSE current_node - 1,
                                lines_traversed, direction)

line_dist_to_dest_node(m, line_dist, starting_node, direction) ==
    line_dist_walk(m.log_list, line_dist, starting_node, 0, direction)

scroll_down_once(m) ==
    IF m.log_list_state.selected = None THEN Fail("panic", "unwrap", m, <<>>)
    ELSE LET Offset(r) ==
                 IF r.res # "ok" THEN r
                 ELSE Done([r.m EXCEPT !.log_list_state.offset = log_offset(r.m) + 1],
                           <<>>)
         IN Offset(IF log_selected(m) <= log_offset(m) + m.log_list_scroll_padding
                   THEN select_next_node(m) ELSE Done(m, <<>>))

scroll_up_once(m) ==
    IF log_offset(m) = 0 THEN Done(m, <<>>)
    ELSE IF m.log_list_layout.height = 0 THEN Fail("panic", "underflow", m, <<>>)
    ELSE LET w == line_dist_to_dest_node(m, m.log_list_layout.height - 1,
                                         log_offset(m), "Down")
         IN IF w.res # "ok" \/ m.log_list_state.selected = None
            THEN Fail("panic", "index", m, <<>>)
            ELSE IF w.node < 1 + m.log_list_scroll_padding
                 THEN Fail("panic", "underflow", m, <<>>)
            ELSE LET Offset(r) ==
                         IF r.res # "ok" THEN r
                         ELSE Done([r.m EXCEPT !.log_list_state.offset =
                                                   SatSub(log_offset(r.m), 1)], <<>>)
                 IN Offset(IF log_selected(m) >= w.node - 1 - m.log_list_scroll_padding
                           THEN select_prev_node(m) ELSE Done(m, <<>>))

\* a variant of scroll_lines that puts the selection on the new offset
scroll_lines_SelectOffset(m, num_lines, direction) ==
    IF m.log_list_state.selected = None THEN Fail("panic", "unwrap", m, <<>>)
    ELSE IF log_selected(m) < log_offset(m) THEN Fail("panic", "underflow", m, <<>>)
    ELSE LET w == line_dist_to_dest_node(m, num_lines, log_offset(m), direction)
         IN IF w.res # "ok" THEN Fail("panic", "index", m, <<>>)
            ELSE LET last_hit == direction = "Down" /\ w.node = Len(m.log_list) - 1
                     target_offset == IF last_hit THEN log_offset(m) ELSE w.node
                 IN Done([log_select(m, w.node) EXCEPT
                              !.log_list_state.offset = target_offset], <<>>)

scroll_lines(m, num_lines, direction) ==
    IF m.log_list_state.selected = None THEN Fail("panic", "unwrap", m, <<>>)
    ELSE IF log_selected(m) < log_offset(m) THEN Fail("panic", "underflow", m, <<>>)
    ELSE LET selected_node_dist_from_offset == log_selected(m) - log_offset(m)
             w == line_dist_to_dest_node(m, num_lines, log_offset(m), direction)
         IN IF w.res # "ok" THEN Fail("panic", "index", m, <<>>)
            ELSE LET last_hit == direction = "Down" /\ w.node = Len(m.log_list) - 1
                     top_hit == direction = "Up" /\ w.node = 0 /\ w.node = log_offset(m)
                     target_offset == IF last_hit THEN log_offset(m) ELSE w.node
                     target_node == IF last_hit THEN w.node
                                    ELSE IF top_hit THEN 0
                                    ELSE w.node + selected_node_dist_from_offset
                 IN Done([log_select(m, target_node) EXCEPT
                              !.log_list_state.offset = target_offset], <<>>)

scroll_down_page(m) == scroll_lines(m, m.log_list_layout.height, "Down")

scroll_up_page(m) == scroll_lines(m, m.log_list_layout.height, "Up")

handle_mouse_click(m, row, column) ==
    LET r == m.log_list_layout IN
    IF row < r.y \/ row >= r.y + r.height \/ column < r.x \/ column >= r.x + r.width
    THEN Done(m, <<>>)
    ELSE LET w == line_dist_to_dest_node(m, row - r.y, log_offset(m), "Down")
         IN IF w.res # "ok" THEN Fail("panic", "index", m, <<>>)
            ELSE Done(log_select(m, w.node), <<>>)

(***************************************************************************)
(* The draw (view.rs:32-51): the List widget is rendered into the middle   *)
(* layout row with the Model's ListState, and the row is stored as         *)
(* log_list_layout.  Rendering a List normalises the state it is given: an *)
(* empty list deselects, a selection past the end moves to the last item,  *)
(* and the offset becomes the first item of a window of at most the row's  *)
(* height that holds the selected item.                                    *)
(***************************************************************************)
ItemHeight(log_list, i) == Len(log_list[i + 1].lines)

\* the items that fit in max_height from the offset on: the index after them
RECURSIVE bounds_fit(_, _, _, _)
bounds_fit(log_list, max_height, last_visible, height) ==
    IF last_visible >= Len(log_list) THEN [last |-> last_visible, height |-> height]
    ELSE IF height + ItemHeight(log_list, last_visible) > max_height
         THEN [last |-> last_visible, height |-> height]
         ELSE bounds_fit(log_list, max_height, last_visible + 1,
                         height + ItemHeight(log_list, last_visible))

\* drop items from the top until the window fits
RECURSIVE bounds_hide_first(_, _, _, _)
bounds_hide_first(log_list, max_height, first_visible, height) ==
    IF height > max_height
    THEN bounds_hide_first(log_list, max_height, first_visible + 1,
                           height - ItemHeight(log_list, first_visible))
    ELSE [first |-> first_visible, height |-> height]

\* extend the window downwards until it holds index_to_display
RECURSIVE bounds_show_below(_, _, _, _, _, _)
bounds_show_below(log_list, max_height, index_to_display, first_visible, last_visible, height) ==
    IF index_to_display >= last_visible
    THEN LET h == bounds_hide_first(log_list, max_height, first_visible,
                                    height + ItemHeight(log_list, last_visible))
         IN bounds_show_below(log_list, max_height, index_to_display,
                              h.first, last_visible + 1, h.height)
    ELSE [first |-> first_visible, last |-> last_visible, height |-> height]

\* drop items from the bottom until the window fits
RECURSIVE bounds_hide_last(_, _, _, _)
bounds_hide_last(log_list, max_height, last_visible, height) ==
    IF height > max_height
    THEN bounds_hide_last(log_list, max_height, last_visible - 1,
                          height - ItemHeight(log_list, last_visible - 1))
    ELSE [last |-> last_visible, height |-> height]

\* extend the window upwards until it holds index_to_display
RECURSIVE bounds_show_above(_, _, _, _, _, _)
bounds_show_above(log_list, max_height, index_to_display, first_visible, last_visible, height) ==
    IF index_to_display < first_visible
    THEN LET h == bounds_hide_last(log_list, max_height, last_visible,
                                   height + ItemHeight(log_list, first_visible - 1))
         IN bounds_show_above(log_list, max_height, index_to_display,
                              first_visible - 1, h.last, h.height)
    ELSE [first |-> first_visible, last |-> last_visible, height |-> height]

\* List::get_items_bounds: the first visible index for this selection and offset
get_items_bounds(log_list, selected, offset0, max_height) ==
    LET offset == Min(offset0, SatSub(Len(log_list), 1))
        fit == bounds_fit(log_list, max_height, offset, 0)
        index_to_display == IF selected = None THEN offset ELSE Unwrap(selected)
        below == bounds_show_below(log_list, max_height, index_to_display,
                                   offset, fit.last, fit.height)
        above == bounds_show_above(log_list, max_height, index_to_display,
                                   below.first, below.last, below.height)
    IN above.first

\* the render of the List widget on a row of the given height
List_render(m, height) ==
    IF height = 0 \/ m.log_list_layout.width = 0 THEN m
    ELSE IF Len(m.log_list) = 0
         THEN [m EXCEPT !.log_list_state = [selected |-> None, offset |-> 0]]
         ELSE LET sel == IF IsSome(m.log_list_state.selected)
                            /\ Unwrap(m.log_list_state.selected) >= Len(m.log_list)
                         THEN Some(Len(m.log_list) - 1)
                         ELSE m.log_list_state.selected
              IN [m EXCEPT !.log_list_state =
                      [selected |-> sel,
                       offset |-> get_items_bounds(m.log_list, sel,
                                                   m.log_list_state.offset, height)]]

\* view(): the list row is what the header (2 rows) and the info panel (a
\* quarter of the terminal, when there is something to show) leave; the
\* layout places the panel's top edge at three quarters of the height,
\* rounded to the nearest row
ListHeight(m, term_height) ==
    IF m.info_list = None
    THEN SatSub(term_height, 2)
    ELSE SatSub((6 * term_height + 4) \div 8, 2)

view(m, term) ==
    LET height == ListHeight(m, term.height)
        m1 == [m EXCEPT !.log_list_layout =
                  [x |-> 0, y |-> Min(2, term.height), width |-> term.width,
                   height |-> height]]
    IN List_render(m1, height)


(***************************************************************************)
(* The command tree (command_tree.rs): a trie over key codes.              *)
(***************************************************************************)
\* a Span: its text, written as content followed by pad spaces, and its colour
Span(content, style) == [content |-> content, pad |-> 0, style |-> style]
Spaces(n) == [content |-> "", pad |-> n, style |-> ""]

new_children == [kind |-> "Children", nodes |-> <<>>, help |-> <<>>]
Action(message) == [kind |-> "Action", message |-> message]

Item(help_group_text, help_text, key_codes, node) ==
    [help_group_text |-> help_group_text, help_text |-> help_text,
     key_codes |-> key_codes, node |-> node]

\* the items of CommandTree::new, in the order of the source
CommandTree_items ==
    << Item("Commands", "Abandon change", <<"a">>, new_children),
       Item("Abandon", "Selected change", <<"a", "a">>, Action("Abandon")),
       Item("Commands", "Bookmark", <<"b">>, new_children),
       Item("Bookmark", "Set", <<"b", "s">>, new_children),
       Item("Bookmark set", "Master for selected change", <<"b", "s", "m">>,
            Action("BookmarkSetMaster")),
       Item("Commands", "Commit change", <<"c">>, new_children),
       Item("Commit", "Selected change", <<"c", "c">>, Action("Commit")),
       Item("Commands", "Describe change", <<"d">>, new_children),
       Item("Describe", "Selected change", <<"d", "d">>, Action("Describe")),
       Item("Commands", "Edit change", <<"e">>, new_children),
       Item("Edit", "Selected change", <<"e", "e">>, Action("Edit")),
       Item("Commands", "Git commands", <<"g">>, new_children),
       Item("Git", "Fetch", <<"g", "f">>, Action("GitFetch")),
       Item("Git", "Push", <<"g", "p">>, Action("GitPush")),
       Item("Commands", "New change", <<"n">>, new_children),
       Item("New", "After selected change", <<"n", "n">>, Action("New")),
       Item("New", "Before selected change", <<"n", "b">>, Action("NewBefore")),
       Item("Commands", "Restore change", <<"r">>, new_children),
       Item("Restore", "Selected change", <<"r", "r">>, Action("Restore")),
       Item("Commands", "Squash change", <<"s">>, new_children),
       Item("Squash", "Selected change into parent", <<"s", "s">>, Action("Squash")),
       Item("Commands", "Undo operation", <<"u">>, new_children),
       Item("Undo", "Last operation", <<"u", "u">>, Action("Undo")) >>

\* CommandTreeNodeChildren::add_child: the node under its key, and the help
\* entry pushed onto its group (a new group goes last)
add_child(self, help_group_text, help_text, key_code, node) ==
    LET hit == {i \in 1..Len(self.help) : self.help[i].group = help_group_text}
        entry == <<key_code, help_text>>
    IN [self EXCEPT
           !.nodes = (key_code :> node) @@ self.nodes,
           !.help = IF hit = {}
                    THEN Append(self.help,
                                [group |-> help_group_text, entries |-> <<entry>>])
                    ELSE LET i == CHOOSE i \in hit : TRUE
                         IN [self.help EXCEPT ![i].entries = Append(@, entry)]]

\* CommandTree::get_node: the node a key sequence leads to from node, if any
RECURSIVE CommandTree_get_node(_, _)
CommandTree_get_node(node, key_codes) ==
    IF Len(key_codes) = 0 THEN Some(node)
    ELSE IF node.kind = "Action" THEN None
    ELSE IF Head(key_codes) \notin DOMAIN node.nodes THEN None
    ELSE CommandTree_get_node(node.nodes[Head(key_codes)], Tail(key_codes))

\* add_children, one entry: add_child on the node get_node_mut finds for all
\* keys but the last (every entry of CommandTree::new has its parent before it)
RECURSIVE CommandTree_add_at(_, _, _)
CommandTree_add_at(node, key_codes, item) ==
    IF Len(key_codes) = 1
    THEN add_child(node, item.help_group_text, item.help_text, key_codes[1], item.node)
    ELSE [node EXCEPT !.nodes[Head(key_codes)] =
             CommandTree_add_at(@, Tail(key_codes), item)]

RECURSIVE CommandTree_add_children(_, _, _)
CommandTree_add_children(tree, entries, i) ==
    IF i > Len(entries) THEN tree
    ELSE CommandTree_add_children(
             CommandTree_add_at(tree, entries[i].key_codes, entries[i]), entries, i + 1)

CommandTree_new == CommandTree_add_children(new_children, CommandTree_items, 1)

\* the order of the key labels, for the sort of the help entries
KeyOrder == <<"a", "b", "c", "d", "e", "f", "g", "h", "i", "j", "k", "l", "m",
              "n", "o", "p", "q", "r", "s", "t", "u", "v", "w", "x", "y", "z">>
KeyRank(k) == CHOOSE i \in 1..Len(KeyOrder) : KeyOrder[i] = k

\* a variant of the sort that leaves the entries in the order of their
\* declaration
SortEntries_Declared(entries) == entries

\* entries.sort(): by key label (the labels of one group differ)
SortEntries(entries) ==
    [i \in 1..Len(entries) |->
        entries[CHOOSE j \in 1..Len(entries) :
                   Cardinality({k \in 1..Len(entries) :
                       KeyRank(entries[k][1]) < KeyRank(entries[j][1])}) = i - 1]]

get_help_entries(self) ==
    [i \in 1..Len(self.help) |->
        [group |-> self.help[i].group, entries |-> SortEntries(self.help[i].entries)]]

COL_WIDTH == 26

\* the labels of the four keys shown with an arrow glyph; the glyph, four
\* bytes of UTF-8 in the source, is written here as ^, v, > and <
ArrowKeys == {"j/v ", "k/^ ", "l/> ", "h/< "}

\* str::len of the labels and texts of the help: their length in bytes (a
\* key code that is a character has one)
StrLen(s) ==
    CASE s \in {"Set", "Git", "New", "Esc"} -> 3
      [] s \in {"Push", "Quit", "Edit", "Undo", "Tab ", "PgDn", "PgUp"} -> 4
      [] s \in {"Fetch", "Enter"} -> 5
      [] s \in {"Commit", "Squash", "Ctrl-r"} -> 6
      [] s \in {"Move up", "Abandon", "Restore", "General"} -> 7
      [] s \in {"Bookmark", "Commands", "Describe"} -> 8
      [] s \in {"Show diff", "Move down", "Show help"} -> 9
      [] s \in {"New change", "Navigation"} -> 10
      [] s \in {"Edit change"} -> 11
      [] s \in {"Git commands", "Move up page", "Next sibling", "Prev sibling",
             "Bookmark set"} -> 12
      [] s \in {"Commit change", "Squash change", "Select parent"} -> 13
      [] s \in {"Abandon change", "Restore change", "Undo operation",
             "Last operation", "Toggle folding", "Move down page"} -> 14
      [] s \in {"Selected change", "Describe change", "Select @ change",
             "Clear app state"} -> 15
      [] s \in {"Refresh log tree"} -> 16
      [] s \in {"After selected change"} -> 21
      [] s \in {"Before selected change"} -> 22
      [] s \in {"Toggle --ignore-immutable"} -> 25
      [] s \in {"Master for selected change"} -> 26
      [] s \in {"Selected change into parent"} -> 27
      [] s \in ArrowKeys -> 7
      [] OTHER -> 1

\* str::is_ascii
IsAscii(s) == s \notin ArrowKeys

\* format!("{text:COL_WIDTH$}"): the text padded with spaces to the width
Padded(content, style) ==
    [content |-> content, pad |-> SatSub(COL_WIDTH, StrLen(content)), style |-> style]

\* the line of one entry: key, space, help text, padding to the column width
HelpEntryLine(key, help) ==
    LET num_cols == StrLen(key) + 1 + StrLen(help) - (IF IsAscii(key) THEN 0 ELSE 3)
    IN <<Span(key, "Green"), Span(" ", ""), Span(help, ""),
         Spaces(SatSub(COL_WIDTH, num_cols))>>

\* one column of render_help_text: the group's header line, then its entries
HelpColumn(g) ==
    <<<<Padded(g.group, "Blue")>>>>
    \o [i \in 1..Len(g.entries) |-> HelpEntryLine(g.entries[i][1], g.entries[i][2])]

\* the spans of row i from column c on; a column that has no row i gives a
\* line of COL_WIDTH spaces
RECURSIVE HelpRow(_, _, _)
HelpRow(columns, i, c) ==
    IF c > Len(columns) THEN <<>>
    ELSE (IF i <= Len(columns[c]) THEN columns[c][i] ELSE <<Spaces(COL_WIDTH)>>)
         \o HelpRow(columns, i, c + 1)

\* render_help_text: the columns side by side, one line per row (max() of no
\* column is None, and its unwrap panics: every caller passes a group)
render_help_text(entries) ==
    LET columns == [c \in 1..Len(entries) |-> HelpColumn(entries[c])]
        heights == {Len(columns[c]) : c \in 1..Len(columns)}
        num_rows == CHOOSE n \in heights : \A k \in heights : k <= n
    IN [i \in 1..num_rows |-> <<Span(" ", "")>> \o HelpRow(columns, i, 1)]

CommandTreeNodeChildren_get_help(self) == render_help_text(get_help_entries(self))

\* display_error_lines: the annotation for an unbound key, appended to what
\* the info display shows; first().unwrap() and spans[0] panic on a text
\* with no line and on a line with no span
ErrorLine(key_code) ==
    <<Span(" Unbound suffix: ", "Red"), Span("'", ""), Span(key_code, "Green"),
      Span("'", "")>>

display_error_lines(info_list, key_code) ==
    LET error_line == ErrorLine(key_code) IN
    IF info_list = None
    THEN [res |-> "ok", info_list |-> Some(<<error_line>>)]
    ELSE LET lines == Unwrap(info_list) IN
         IF Len(lines) = 0 \/ Len(lines[1]) = 0 \/ Len(Last(lines)) = 0
         THEN [res |-> "panic", info_list |-> info_list]
         ELSE LET add_blank_line == lines[1][1] # error_line[1]
                  popped == IF Last(lines)[1] = error_line[1]
                            THEN SubSeq(lines, 1, Len(lines) - 2)
                            ELSE lines
                  blanked == IF add_blank_line THEN Append(popped, <<>>) ELSE popped
              IN [res |-> "ok", info_list |-> Some(Append(blanked, error_line))]

\* a variant that leaves the keys of a finished chord in the buffer
handle_command_key_KeepsChord(m, key_code) ==
    LET keys == Append(m.command_keys, key_code)
        node == CommandTree_get_node(CommandTree_new, keys)
    IN IF node = None
       THEN LET d == display_error_lines(m.info_list, key_code)
            IN [res |-> d.res, msg |-> None,
                m |-> [m EXCEPT !.command_keys = Front(keys), !.info_list = d.info_list]]
       ELSE IF Unwrap(node).kind = "Children"
            THEN [res |-> "ok", msg |-> None,
                  m |-> [m EXCEPT !.command_keys = keys,
                             !.info_list =
                                 Some(CommandTreeNodeChildren_get_help(Unwrap(node)))]]
            ELSE [res |-> "ok", msg |-> Some(Unwrap(node).message),
                  m |-> [m EXCEPT !.command_keys = keys]]

\* a variant that leaves the info display as it is on a prefix of a chord
handle_command_key_KeepsInfo(m, key_code) ==
    LET keys == Append(m.command_keys, key_code)
        node == CommandTree_get_node(CommandTree_new, keys)
    IN IF node = None
       THEN LET d == display_error_lines(m.info_list, key_code)
            IN [res |-> d.res, msg |-> None,
                m |-> [m EXCEPT !.command_keys = Front(keys), !.info_list = d.info_list]]
       ELSE IF Unwrap(node).kind = "Children"
            THEN [res |-> "ok", msg |-> None,
                  m |-> [m EXCEPT !.command_keys = keys]]
            ELSE [res |-> "ok", msg |-> Some(Unwrap(node).message),
                  m |-> [m EXCEPT !.command_keys = <<>>]]

\* a variant that leaves an unbound key in the buffer
handle_command_key_KeepsUnbound(m, key_code) ==
    LET keys == Append(m.command_keys, key_code)
        node == CommandTree_get_node(CommandTree_new, keys)
    IN IF node = None
       THEN LET d == display_error_lines(m.info_list, key_code)
            IN [res |-> d.res, msg |-> None,
                m |-> [m EXCEPT !.command_keys = keys, !.info_list = d.info_list]]
       ELSE IF Unwrap(node).kind = "Children"
            THEN [res |-> "ok", msg |-> None,
                  m |-> [m EXCEPT !.command_keys = keys,
                             !.info_list =
                                 Some(CommandTreeNodeChildren_get_help(Unwrap(node)))]]
            ELSE [res |-> "ok", msg |-> Some(Unwrap(node).message),
                  m |-> [m EXCEPT !.command_keys = <<>>]]

\* handle_command_key: the Model as the call leaves it and the message returned
handle_command_key(m, key_code) ==
    LET keys == Append(m.command_keys, key_code)
        node == CommandTree_get_node(CommandTree_new, keys)
    IN IF node = None
       THEN LET d == display_error_lines(m.info_list, key_code)
            IN [res |-> d.res, msg |-> None,
                m |-> [m EXCEPT !.command_keys = Front(keys), !.info_list = d.info_list]]
       ELSE IF Unwrap(node).kind = "Children"
            THEN [res |-> "ok", msg |-> None,
                  m |-> [m EXCEPT !.command_keys = keys,
                             !.info_list =
                                 Some(CommandTreeNodeChildren_get_help(Unwrap(node)))]]
            ELSE [res |-> "ok", msg |-> Some(Unwrap(node).message),
                  m |-> [m EXCEPT !.command_keys = <<>>]]


\* CommandTree::get_help: the root's groups, then Navigation and General
CommandTree_get_help(tree) ==
    LET nav_help == << <<"Enter", "Show diff">>, <<"Tab ", "Toggle folding">>,
                       <<"PgDn", "Move down page">>, <<"PgUp", "Move up page">>,
                       <<"j/v ", "Move down">>, <<"k/^ ", "Move up">>,
                       <<"l/> ", "Next sibling">>, <<"h/< ", "Prev sibling">>,
                       <<"K", "Select parent">>, <<"@", "Select @ change">> >>
        general_help == << <<"Ctrl-r", "Refresh log tree">>, <<"Esc", "Clear app state">>,
                           <<"i", "Toggle --ignore-immutable">>, <<"?", "Show help">>,
                           <<"q", "Quit">> >>
    IN render_help_text(get_help_entries(tree)
                        \o <<[group |-> "Navigation", entries |-> nav_help],
                             [group |-> "General", entries |-> general_help]>>)

show_help(m) == [m EXCEPT !.info_list = Some(CommandTree_get_help(CommandTree_new))]

(***************************************************************************)
(* Action commands (model.rs:385-516, jj_commands.rs:38-61).  oc is what   *)
(* the collaborator does during the handler: oc.cmd with the command       *)
(* ("ok", "failed", "other"), oc.text the text it prints, oc.log and       *)
(* oc.load with the reload that follows a success.                         *)
(***************************************************************************)
\* String::into_text: one line, which has no span for the empty string
into_text(output) == IF output = "" THEN <<<<>>>> ELSE <<<<Span(output, "")>>>>

\* JjCommand::run
JjCommand_run(oc) ==
    CASE oc.cmd = "ok" -> [kind |-> "Ok", text |-> oc.text]
      [] oc.cmd = "failed" -> [kind |-> "Failed", text |-> trim(oc.text)]
      [] OTHER -> [kind |-> "Other", text |-> ""]

\* a variant that reloads the log after a failed command too
handle_jj_command_result_ReloadOnFailed(m, w, result, sync_on_success, oc) ==
    LET m1 == clear(m)
        m2 == [m1 EXCEPT !.info_list = Some(into_text(result.text))]
    IN IF result.kind = "Other" THEN Fail("err", "other", m1, <<>>)
       ELSE IF sync_on_success THEN sync(m2, w, oc) ELSE Done(m2, <<>>)

handle_jj_command_result(m, w, result, sync_on_success, oc) ==
    LET m1 == clear(m) IN
    CASE result.kind = "Ok" ->
            LET m2 == [m1 EXCEPT !.info_list = Some(into_text(result.text))]
            IN IF sync_on_success THEN sync(m2, w, oc) ELSE Done(m2, <<>>)
      [] result.kind = "Other" -> Fail("err", "other", m1, <<>>)
      [] OTHER -> Done([m1 EXCEPT !.info_list = Some(into_text(result.text))], <<>>)

run_jj_command(m, w, oc) ==
    LET r == handle_jj_command_result(m, w, JjCommand_run(oc), TRUE, oc)
    IN [r EXCEPT !.queries = <<"action">> \o @]

run_jj_command_nosync(m, w, oc) ==
    LET r == handle_jj_command_result(m, w, JjCommand_run(oc), FALSE, oc)
    IN [r EXCEPT !.queries = <<"action">> \o @]

get_selected_change_id(m) ==
    LET commit == get_tree_commit(m.jj_log.log_tree, get_selected_tree_position(m))
    IN IF commit = None THEN None ELSE Some(Unwrap(commit).change_id)

\* the commands that act on the selected change return early without one
OnSelectedChange(m, r) ==
    IF ~SelectedOk(m) THEN Fail("panic", "index", m, <<>>)
    ELSE IF get_selected_change_id(m) = None THEN Done(m, <<>>)
    ELSE r

jj_show(m, w, oc) == OnSelectedChange(m, run_jj_command_nosync(m, w, oc))
jj_describe(m, w, oc) == OnSelectedChange(m, run_jj_command(m, w, oc))
jj_new(m, w, oc) == OnSelectedChange(m, run_jj_command(m, w, oc))
jj_new_before(m, w, oc) == OnSelectedChange(m, run_jj_command(m, w, oc))
jj_abandon(m, w, oc) == OnSelectedChange(m, run_jj_command(m, w, oc))
jj_edit(m, w, oc) == OnSelectedChange(m, run_jj_command(m, w, oc))
jj_bookmark_set_master(m, w, oc) == OnSelectedChange(m, run_jj_command(m, w, oc))
jj_squash(m, w, oc) == OnSelectedChange(m, run_jj_command(m, w, oc))
jj_undo(m, w, oc) == run_jj_command(m, w, oc)
jj_commit(m, w, oc) == run_jj_command(m, w, oc)
jj_fetch(m, w, oc) == run_jj_command(m, w, oc)
jj_push(m, w, oc) == run_jj_command(m, w, oc)

\* the messages whose arm of handle_msg runs an action command
\* (update.rs:136, 149-158)
Commands ==
    {"Show", "Describe", "New", "Abandon", "Undo", "Commit", "Squash", "Edit",
     "Fetch", "Push", "BookmarkSetMaster"}

\* handle_msg, the arms of the action commands: msg is one of Commands
handle_command_msg(m, w, msg, oc) ==
    CASE msg = "Show" -> jj_show(m, w, oc)
      [] msg = "Describe" -> jj_describe(m, w, oc)
      [] msg = "New" -> jj_new(m, w, oc)
      [] msg = "Abandon" -> jj_abandon(m, w, oc)
      [] msg = "Undo" -> jj_undo(m, w, oc)
      [] msg = "Commit" -> jj_commit(m, w, oc)
      [] msg = "Squash" -> jj_squash(m, w, oc)
      [] msg = "Edit" -> jj_edit(m, w, oc)
      [] msg = "Fetch" -> jj_fetch(m, w, oc)
      [] msg = "Push" -> jj_push(m, w, oc)
      [] msg = "BookmarkSetMaster" -> jj_bookmark_set_master(m, w, oc)


(***************************************************************************)
(* The collaborator.  A world is what jj answers: the lines of the log (a  *)
(* header line starts a change, any other line is text), the files of each *)
(* change with the lines of their hunks, and the size of the terminal.     *)
(***************************************************************************)
Hdr(change_id, symbol) ==
    [hdr |-> TRUE, change_id |-> change_id, symbol |-> symbol, text |-> change_id]
Txt(text) == [hdr |-> FALSE, change_id |-> "", symbol |-> "", text |-> text]
\* a line of a hunk: its number before and after the change (0 for a line
\* that is on one side only) and its text
HunkLine(before, after, text) == [before |-> before, after |-> after, text |-> text]

\* a file of a change: its line in the diff summary, the path it is at, and
\* the lines of its hunks; File is a modified file
FileLine(line, path, hunks) == [line |-> line, path |-> path, hunks |-> hunks]
File(path, hunks) == FileLine("M " \o path, path, hunks)

TermHeight == 6
TermWidth == 1

\* the working copy with a file of two hunks, elided revisions, and the root
\* change on one line
WorldA ==
    [name |-> "A",
     log |-> <<Hdr("kA", "@"), Txt("(no description set)"), Txt("~"),
               Hdr("kR", "+")>>,
     files |-> [c \in {"kA", "kR"} |->
                  IF c = "kA" THEN <<File("g1", <<<<HunkLine(1, 1, "b1")>>, <<HunkLine(9, 9, "b2")>>>>)>>
                              ELSE <<>>],
     term |-> [height |-> TermHeight, width |-> TermWidth]]

Outcomes == {"ok", "failed", "other", "malformed"}
Outputs == {"", "done"}

\* what a command that fails prints on stderr: nothing, or a line
Diagnostics == {"", "done\n"}

AllOk == [cmd |-> "ok", text |-> "", log |-> "ok", load |-> "ok"]

\* what can happen during a reload: the log query fails, or the child load does
SyncScenarios ==
    {[AllOk EXCEPT !.log = o] : o \in Outcomes}
    \cup {[AllOk EXCEPT !.load = o] : o \in Outcomes}

LoadScenarios == {[AllOk EXCEPT !.load = o] : o \in Outcomes}

CommandScenarios ==
    {[s EXCEPT !.text = t] : s \in SyncScenarios, t \in Outputs}
    \cup {[AllOk EXCEPT !.cmd = "failed", !.text = t] : t \in Diagnostics}
    \cup {[AllOk EXCEPT !.cmd = "other"]}

(***************************************************************************)
(* The main loop (tui.rs:27-34): while the state is not Quit, draw, then   *)
(* update; an Err of update ends the loop and the process.  last records   *)
(* the step update just took: the message, the key that gave it, what the  *)
(* collaborator did (oc), the Model before the handler ran, and the kind   *)
(* of the handler's return with the queries it sent.                       *)
(***************************************************************************)
Step(msg, key, oc, before, r) ==
    [msg |-> msg, key |-> key, oc |-> oc, before |-> before,
     res |-> r.res, why |-> r.why, queries |-> r.queries]

\* Model::new before its sync
Model_fields ==
    [state |-> "Running",
     command_keys |-> <<>>,
     jj_log |-> [log_tree |-> <<>>],
     log_list |-> <<>>,
     log_list_state |-> [selected |-> None, offset |-> 0],
     log_list_tree_positions |-> <<>>,
     log_list_layout |-> [x |-> 0, y |-> 0, width |-> 0, height |-> 0],
     log_list_scroll_padding |-> LOG_LIST_SCROLL_PADDING,
     info_list |-> None,
     global_args |-> [ignore_immutable |-> FALSE]]

\* what last holds once the step has been drawn
NoStep == Step("", "", AllOk, Model_fields, Done(Model_fields, <<>>))

ExitOf(r) ==
    CASE r.res = "err" -> "error"
      [] r.res = "panic" -> "panic"
      [] r.m.state = "Quit" -> "quit"
      [] OTHER -> "none"

\* w as the world of a build with or without the checks for overflow (the
\* debug and the release profile)
InBuild(w, overflow_checks) ==
    [name |-> w.name, log |-> w.log, files |-> w.files, term |-> w.term,
     overflow_checks |-> overflow_checks]

\* the numbers of a side of a hunk go down
CountsDown(block, side) ==
    \E i, j \in 1..Len(block) : i < j /\ block[j][side] # 0 /\ block[j][side] < block[i][side]

\* the builds w is drawn in: the two differ where a count overflows, which
\* takes a hunk whose numbers go down, so a world without one is drawn once
Builds(w) ==
    IF \E c \in DOMAIN w.files :
          \E i \in 1..Len(w.files[c]) :
             \E k \in 1..Len(w.files[c][i].hunks) :
                \/ CountsDown(w.files[c][i].hunks[k], "before")
                \/ CountsDown(w.files[c][i].hunks[k], "after")
    THEN BOOLEAN ELSE {TRUE}

\* Model::new on world w
InitOn(w) ==
    /\ \E overflow_checks \in Builds(w) : world = InBuild(w, overflow_checks)
    /\ \E oc \in SyncScenarios :
          LET Built(r) ==
                  /\ model = r.m
                  /\ exit = ExitOf(r)
                  /\ last = Step("new", "", oc, Model_fields, r)
          IN Built(sync(Model_fields, world, oc))
    /\ pc = "draw"

Running == exit = "none"

\* terminal.draw(view)
Draw ==
    /\ Running /\ pc = "draw"
    /\ model' = view(model, world.term)
    /\ pc' = "update"
    /\ last' = NoStep
    /\ UNCHANGED <<world, exit>>

\* update() with the event that gives message msg, handled with result r
Handled(msg, key, oc, r) ==
    \E h \in {r} :
       /\ model' = h.m
       /\ last' = Step(msg, key, oc, model, h)
       /\ exit' = ExitOf(h)
       /\ pc' = "draw"

Update == Running /\ pc = "update"

Quit == Update /\ Handled("Quit", "", AllOk, Done(quit(model), <<>>)) /\ UNCHANGED world

Refresh ==
    /\ Update
    /\ \E oc \in SyncScenarios : Handled("Refresh", "", oc, sync(model, world, oc))
    /\ UNCHANGED world

Clear == Update /\ Handled("Clear", "", AllOk, Done(clear(model), <<>>)) /\ UNCHANGED world

ShowHelp ==
    /\ Update
    /\ Handled("ShowHelp", "", AllOk, Done(show_help(model), <<>>))
    /\ UNCHANGED world

ToggleIgnoreImmutable ==
    /\ Update
    /\ Handled("ToggleIgnoreImmutable", "", AllOk,
               Done(toggle_ignore_immutable(model), <<>>))
    /\ UNCHANGED world

ScrollDownPage ==
    /\ Update
    /\ Handled("ScrollDownPage", "", AllOk, scroll_down_page(model))
    /\ UNCHANGED world

ScrollUpPage ==
    /\ Update
    /\ Handled("ScrollUpPage", "", AllOk, scroll_up_page(model))
    /\ UNCHANGED world

SelectNextNode ==
    /\ Update
    /\ Handled("SelectNextNode", "", AllOk, select_next_node(model))
    /\ UNCHANGED world

SelectPrevNode ==
    /\ Update
    /\ Handled("SelectPrevNode", "", AllOk, select_prev_node(model))
    /\ UNCHANGED world

SelectNextSiblingNode ==
    /\ Update
    /\ Handled("SelectNextSiblingNode", "", AllOk,
               select_current_next_sibling_node(model))
    /\ UNCHANGED world

SelectPrevSiblingNode ==
    /\ Update
    /\ Handled("SelectPrevSiblingNode", "", AllOk,
               select_current_prev_sibling_node(model))
    /\ UNCHANGED world

SelectParentNode ==
    /\ Update
    /\ Handled("SelectParentNode", "", AllOk, select_parent_node(model))
    /\ UNCHANGED world

SelectCurrentWorkingCopy ==
    /\ Update
    /\ Handled("SelectCurrentWorkingCopy", "", AllOk,
               select_current_working_copy(model))
    /\ UNCHANGED world

ToggleLogListFold ==
    /\ Update
    /\ \E oc \in LoadScenarios :
          Handled("ToggleLogListFold", "", oc,
                  toggle_current_fold(model, world, oc.load))
    /\ UNCHANGED world

ScrollDown ==
    Update /\ Handled("ScrollDown", "", AllOk, scroll_down_once(model)) /\ UNCHANGED world

ScrollUp ==
    Update /\ Handled("ScrollUp", "", AllOk, scroll_up_once(model)) /\ UNCHANGED world

\* the rows and columns a click can come from: inside the terminal
Rows == 0..(world.term.height - 1)
Columns == 0..(world.term.width - 1)

\* where a click at row and column falls: the test of handle_mouse_click
ClickPlace(m, row, column) ==
    LET r == m.log_list_layout IN
    IF row < r.y \/ row >= r.y + r.height \/ column < r.x \/ column >= r.x + r.width
    THEN "outside" ELSE "inside"

LeftMouseClick ==
    /\ Update
    /\ \E row \in Rows, column \in Columns :
          Handled("LeftMouseClick", ClickPlace(model, row, column), AllOk,
                  handle_mouse_click(model, row, column))
    /\ UNCHANGED world

\* handle_mouse_click, then toggle_current_fold
right_mouse_click(m, w, row, column, outcome) ==
    LET Toggle(c) == IF c.res # "ok" THEN c ELSE toggle_current_fold(c.m, w, outcome)
    IN Toggle(handle_mouse_click(m, row, column))

RightMouseClick ==
    /\ Update
    /\ \E row \in Rows, column \in Columns, oc \in LoadScenarios :
          Handled("RightMouseClick", ClickPlace(model, row, column), oc,
                  right_mouse_click(model, world, row, column, oc.load))
    /\ UNCHANGED world

NextNav ==
    \/ Draw
    \/ Quit
    \/ Refresh
    \/ ScrollDownPage
    \/ ScrollUpPage
    \/ SelectNextNode
    \/ SelectPrevNode
    \/ SelectNextSiblingNode
    \/ SelectPrevSiblingNode
    \/ SelectParentNode
    \/ SelectCurrentWorkingCopy
    \/ ToggleLogListFold
    \/ ScrollDown
    \/ ScrollUp
    \/ LeftMouseClick
    \/ RightMouseClick

Init == InitOn(WorldA)

Spec == Init /\ [][NextNav]_vars

(***************************************************************************)
(* Keys and action commands.  A key that handle_key has no arm for goes to *)
(* handle_command_key; the message a finished chord returns is handled in  *)
(* the same update.  An action command that succeeds may change what the   *)
(* collaborator answers from then on.                                      *)
(***************************************************************************)
\* a change with one file, elided revisions, and the root change
WorldB ==
    [name |-> "B",
     log |-> <<Hdr("kC", "@"), Txt("work"), Txt("~"), Hdr("kR", "+")>>,
     files |-> [c \in {"kC", "kR"} |->
                  IF c = "kC" THEN <<File("f", <<<<HunkLine(1, 1, "x")>>>>)>> ELSE <<>>],
     term |-> [height |-> TermHeight, width |-> TermWidth]]

\* the same with a new empty change inserted before it: the working copy is
\* the second entry of the log
WorldC ==
    [name |-> "C",
     log |-> <<Hdr("kC", "o"), Txt("work"), Hdr("kN", "@"),
               Txt("¦ (empty) (no description set)"), Txt("~"), Hdr("kR", "+")>>,
     files |-> [c \in {"kN", "kC", "kR"} |->
                  IF c = "kC" THEN <<File("f", <<<<HunkLine(1, 1, "x")>>>>)>> ELSE <<>>],
     term |-> [height |-> TermHeight, width |-> TermWidth]]

KeyWorlds == {WorldB, WorldC}

\* the keys of the chords of CommandTree::new whose message has a handler
\* (all but Restore's), and one key no chord has
Keys == {"a", "b", "c", "d", "e", "f", "g", "m", "n", "p", "s", "u", "z"}

\* the outcomes of a command that does not reload
ShowScenarios ==
    {[AllOk EXCEPT !.text = t] : t \in Outputs}
    \cup {[AllOk EXCEPT !.cmd = "failed", !.text = t] : t \in Diagnostics}
    \cup {[AllOk EXCEPT !.cmd = "other"]}

\* the action command of this step ran and succeeded
Ran(oc, r) == oc.cmd = "ok" /\ r.queries # <<>> /\ r.queries[1] = "action"

\* The command tree names four messages the Message of update.rs:12-43 does
\* not have: command_tree.rs is of a later revision than update.rs.  GitFetch
\* and GitPush are the later names of Fetch and Push.  NewBefore is the
\* message of Model::jj_new_before (model.rs:410-416), which no arm of this
\* handle_msg calls and the arm of the later revision does.  Restore has no
\* arm and no function of Model, and no step is taken on it.
UpdateMessage(msg) ==
    CASE msg = "GitFetch" -> "Fetch"
      [] msg = "GitPush" -> "Push"
      [] OTHER -> msg

HasHandler(msg) == msg = "NewBefore" \/ UpdateMessage(msg) \in Commands

\* the loop of update over what handle_command_key returned for the key: a
\* panic of the call ends the session, no message ends the update, and a
\* message goes to handle_msg
key_event(h, w, oc) ==
    IF h.res # "ok" THEN Fail(h.res, "unwrap", h.m, <<>>)
    ELSE IF h.msg = None THEN Done(h.m, <<>>)
    ELSE IF Unwrap(h.msg) = "NewBefore" THEN jj_new_before(h.m, w, oc)
    ELSE handle_command_msg(h.m, w, UpdateMessage(Unwrap(h.msg)), oc)

\* the message key_code completes on Model m, if it completes one
KeyMessage(m, key_code) == handle_command_key(m, key_code).msg

\* what the collaborator can do on this key: nothing unless it ends a chord
KeyScenarios(h) == IF h.msg = None THEN {AllOk} ELSE CommandScenarios

\* a key no arm of handle_key names: handle_command_key, then the message
CommandKey ==
    /\ Update
    /\ \E key_code \in Keys :
          \E h \in {handle_command_key(model, key_code)} :
             /\ h.msg # None => HasHandler(Unwrap(h.msg))
             /\ \E oc \in KeyScenarios(h) :
                   \E w \in IF oc.cmd = "ok"
                            THEN {InBuild(k, world.overflow_checks) : k \in KeyWorlds}
                            ELSE {world} :
                      \E r \in {key_event(h, w, oc)} :
                         /\ Handled("CommandKey", key_code, oc, r)
                         /\ world' = IF Ran(oc, r) THEN w ELSE world

\* Enter: jj show on the selected change
Show ==
    /\ Update
    /\ \E oc \in ShowScenarios : Handled("Show", "", oc, jj_show(model, world, oc))
    /\ UNCHANGED world

NextKeys ==
    \/ Draw
    \/ Quit
    \/ Refresh
    \/ Clear
    \/ ShowHelp
    \/ SelectNextNode
    \/ Show
    \/ CommandKey

InitKeys == InitOn(WorldB)

SpecKeys == InitKeys /\ [][NextKeys]_vars

(***************************************************************************)
(* Loading the files and the hunks of a change.  The working copy is new   *)
(* and empty; the change below it has the files of one of a few diffs:     *)
(* renamed and copied files, as jj prints their paths, with and without    *)
(* colour, and added, deleted and modified files with their hunks.         *)
(***************************************************************************)
\* a hunk with one line inserted: lines 12 to 15 before, 12 to 16 after
InsertionHunk ==
    <<HunkLine(12, 12, "a"), HunkLine(13, 13, "b"), HunkLine(0, 14, "n"),
      HunkLine(14, 15, "c"), HunkLine(15, 16, "d")>>

\* a hunk with two lines replaced by one, from line 120 on
ReplaceHunk ==
    <<HunkLine(120, 120, "e"), HunkLine(121, 0, "f"), HunkLine(122, 0, "g"),
      HunkLine(0, 121, "h")>>

\* a hunk whose last line is an empty line of the file
BlankEndHunk == <<HunkLine(1, 1, "a"), HunkLine(2, 2, "")>>

AddedHunk == <<HunkLine(0, 1, "x"), HunkLine(0, 2, "y")>>
DeletedHunk == <<HunkLine(1, 0, "x")>>

TrailingBraceDiffs ==
    {<<FileLine(status \o " src/{old.rs => new.rs}", "src/new.rs", <<AddedHunk>>)>> :
         status \in {"R", "C"}}
    \cup {<<FileLine(ESC \o "[36mR src/{old.rs => new.rs}" \o ESC \o "[39m",
                     "src/new.rs", <<AddedHunk>>)>>}

MiddleBraceDiffs ==
    {<<FileLine(status \o " a/{x => y}/b.rs", "a/y/b.rs", <<AddedHunk>>)>> :
         status \in {"R", "C"}}

HunkDiffs ==
    {<<FileLine("A n.rs", "n.rs", <<AddedHunk>>)>>,
     <<FileLine("D o.rs", "o.rs", <<DeletedHunk>>)>>,
     <<File("m.rs", <<InsertionHunk, ReplaceHunk>>)>>,
     <<File("t.rs", <<BlankEndHunk>>)>>}

LoadWorld(files) ==
    [name |-> "L",
     log |-> <<Hdr("kN", "@"),
               Txt("¦ " \o ESC \o "[38;5;3m(no description set)" \o ESC \o "[39m"),
               Hdr("kA", "o"), Txt("¦ edits")>>,
     files |-> [c \in {"kN", "kA"} |-> IF c = "kA" THEN files ELSE <<>>],
     term |-> [height |-> TermHeight, width |-> TermWidth]]

LoadWorlds ==
    {LoadWorld(files) : files \in TrailingBraceDiffs \cup MiddleBraceDiffs \cup HunkDiffs}

InitLoad == \E w \in LoadWorlds : InitOn(w)

NextLoad ==
    \/ Draw
    \/ SelectNextNode
    \/ SelectPrevNode
    \/ ToggleLogListFold

SpecLoad == InitLoad /\ [][NextLoad]_vars

(***************************************************************************)
(* Loading logs of other shapes: a change printed on one line right before *)
(* another change, a log in which no change is the working copy (with a    *)
(* change or with a line of text first), a log of no lines, and a change   *)
(* with files for which jj prints no line of a hunk.                       *)
(***************************************************************************)
LogWorld(name, log, files) ==
    [name |-> name, log |-> log, files |-> files,
     term |-> [height |-> TermHeight, width |-> TermWidth]]

WorldOneLine ==
    LogWorld("one-line",
             <<Hdr("kA", "@"), Hdr("kB", "o"), Txt("second"), Hdr("kR", "+")>>,
             [c \in {"kA"} |-> <<>>])

WorldNoCurrent ==
    LogWorld("no-current",
             <<Hdr("kA", "o"), Txt("a"), Hdr("kB", "o"), Txt("b")>>,
             [c \in {"kA"} |-> <<File("f", <<<<HunkLine(1, 1, "x")>>>>)>>])

WorldTextFirst ==
    LogWorld("text-first",
             <<Txt("~"), Hdr("kA", "o"), Txt("a")>>,
             [c \in {"kA"} |-> <<File("f", <<<<HunkLine(1, 1, "x")>>>>)>>])

WorldEmpty == LogWorld("empty", <<>>, [c \in {"kA"} |-> <<>>])

\* e.rs: only the header line is printed; n.rs: nothing is printed
WorldNoHunks ==
    LogWorld("no-hunks",
             <<Hdr("kA", "@"), Txt("x")>>,
             [c \in {"kA"} |-> <<File("e.rs", <<>>), FileLine("M n.rs", "", <<>>)>>])

\* a hunk whose numbers go down on both sides: 5 to 3 before, 9 to 2 after
WorldReversed ==
    LogWorld("reversed",
             <<Hdr("kA", "@"), Txt("x")>>,
             [c \in {"kA"} |->
                <<File("v.rs", <<<<HunkLine(5, 9, "a"), HunkLine(3, 2, "b")>>>>)>>])

LogWorlds ==
    {WorldOneLine, WorldNoCurrent, WorldTextFirst, WorldEmpty, WorldNoHunks,
     WorldReversed}

InitLog == \E w \in LogWorlds : InitOn(w)

NextLog ==
    \/ Draw
    \/ Refresh
    \/ SelectNextNode
    \/ SelectPrevNode
    \/ ToggleLogListFold

SpecLog == InitLog /\ [][NextLog]_vars

(***************************************************************************)
(* Properties of the tree, its flattening and the navigation.              *)
(***************************************************************************)
Tree(m) == m.jj_log.log_tree
Items(m) == [items |-> m.log_list, addresses |-> m.log_list_tree_positions]

\* C1: a flatten pass over the tree of any reachable state, whatever its fold
\* states, returns as many items as addresses, and the address at every index
\* resolves through get_tree_node to the node that produced the item there:
\* the node renders to that item and holds that index as its flat index.
C1_FlattenAddressesResolve ==
    LET Resolves(f) ==
            /\ f.res = "ok"
            /\ Len(f.log_list) = Len(f.positions)
            /\ \A i \in 1..Len(f.log_list) :
                  LET Is(got) ==
                          /\ got.res = "ok"
                          /\ Render(got.node, world.overflow_checks)
                                = Rendered(f.log_list[i])
                          /\ got.node.flat_log_idx = i - 1
                  IN Is(get_tree_node(f.log_tree, f.positions[i]))
    IN Resolves(flatten_log(Tree(model), world.overflow_checks))

\* the lists of a running session are those of a pass over its tree, and
\* they reach down to the lines of a hunk
C1_Witness ==
    /\ Running
    /\ Items(model) = Items(sync_log_list(model, world.overflow_checks).m)
    /\ \E i \in 1..Len(model.log_list) :
          /\ Len(model.log_list_tree_positions[i]) = DIFF_HUNK_LINE_IDX + 1
          /\ model.log_list[i].kind = "DiffHunkLine"

\* the node toggle_current_fold toggles for the selection of m
Subject(m) ==
    get_tree_node(Tree(m), Truncate(get_selected_tree_position(m), DIFF_HUNK_IDX + 1))

\* whether the children of a node have been fetched: only a Commit and a
\* FileDiff fetch theirs lazily
ChildrenLoaded(node) ==
    IF node.kind \in {"Commit", "FileDiff"} THEN node.loaded ELSE TRUE

\* toggle_current_fold twice in succession, both loads succeeding
ToggleTwice(m, w) ==
    LET Second(t) == IF t.res # "ok" THEN t ELSE toggle_current_fold(t.m, w, "ok")
    IN Second(toggle_current_fold(m, w, "ok"))

CanToggle == Running /\ SelectedOk(model) /\ Subject(model).res = "ok"

\* C2 as stated: two toggles in succession return the node to its original
\* child-loaded state and give back the same flattened lists.
C2_ToggleTwiceRestoresLoaded ==
    CanToggle =>
        LET Same(r) ==
                r.res = "ok" =>
                    /\ ChildrenLoaded(Subject(r.m).node)
                           = ChildrenLoaded(Subject(model).node)
                    /\ Items(r.m) = Items(model)
        IN Same(ToggleTwice(model, world))

\* C2: two toggles in succession give back the same flattened lists and the
\* node's fold state, and leave the children of a Commit or FileDiff loaded,
\* whether or not they were loaded before.
C2_ToggleTwiceKeepsLoaded ==
    CanToggle =>
        LET Same(r) ==
                r.res = "ok" =>
                    /\ Items(r.m) = Items(model)
                    /\ Subject(r.m).at = Subject(model).at
                    /\ Render(Subject(r.m).node, world.overflow_checks)
                          = Render(Subject(model).node, world.overflow_checks)
                    /\ Subject(model).node.kind \in {"Commit", "FileDiff"}
                           => Subject(r.m).node.loaded
        IN Same(ToggleTwice(model, world))

\* a folded change whose files were never fetched is selected, and two
\* toggles leave it folded with its files fetched
C2_Witness ==
    /\ CanToggle /\ pc = "update"
    /\ Subject(model).node.kind = "Commit"
    /\ ~Subject(model).node.loaded
    /\ ToggleTwice(model, world).res = "ok"
    /\ Subject(ToggleTwice(model, world).m).node.loaded
    /\ ~Subject(ToggleTwice(model, world).m).node.unfolded

\* next-sibling applied n times
RECURSIVE NextSiblingTimes(_, _)
NextSiblingTimes(r, n) ==
    IF n = 0 \/ r.res # "ok" THEN r
    ELSE NextSiblingTimes(select_current_next_sibling_node(r.m), n - 1)

\* the Model with the selection on top-level entry k (from 1)
OnTopLevel(m, k) == log_select(m, Tree(m)[k].flat_log_idx)

\* C3: with N top-level entries and the selection on the first, N-1
\* next-siblings select the last top-level entry and change nothing else, one
\* more leaves the selection there, and previous-sibling on the first entry
\* leaves it on the first; for every fold state the session reaches.
C3_SiblingChain ==
    (Running /\ Len(Tree(model)) > 0) =>
        LET N == Len(Tree(model))
            Clamped(r) == r.res = "ok" /\ r.m = OnTopLevel(model, N)
            Reaches(r) ==
                /\ r.res = "ok"
                /\ r.m = OnTopLevel(model, N)
                /\ Clamped(select_current_next_sibling_node(r.m))
            Stays(r) == r.res = "ok" /\ r.m = OnTopLevel(model, 1)
        IN /\ Reaches(NextSiblingTimes(Done(OnTopLevel(model, 1), <<>>), N - 1))
           /\ Stays(select_current_prev_sibling_node(OnTopLevel(model, 1)))

\* next-sibling was applied on the last of three top-level entries, below a
\* first entry whose hunks are shown, and the selection stayed
C3_Witness ==
    /\ Running
    /\ last.msg = "SelectNextSiblingNode"
    /\ Len(Tree(model)) >= 3
    /\ Tree(model)[Len(Tree(model))].flat_log_idx > Len(Tree(model))
    /\ last.before.log_list_state.selected
           = Some(Tree(model)[Len(Tree(model))].flat_log_idx)
    /\ model.log_list_state = last.before.log_list_state

\* the number of nodes that have the parent of the node at position p
SiblingCount(tree, p) ==
    IF Len(p) = 1 THEN Len(tree)
    ELSE Len(children(get_tree_node(tree, Front(p)).node))

HasNextSibling(tree, p) == Last(p) + 1 < SiblingCount(tree, p)

\* the position of the nearest ancestor of p (p itself first) that has a
\* following sibling, if one has
RECURSIVE NearestWithNext(_, _)
NearestWithNext(tree, p) ==
    IF HasNextSibling(tree, p) THEN Some(p)
    ELSE IF Len(p) = 1 THEN None
    ELSE NearestWithNext(tree, Front(p))

NextSiblingPos(p) == Append(Front(p), Last(p) + 1)

\* the indices of the flattened items after index sel that are outside of the
\* subtree of position p
AfterSubtree(m, sel, p) ==
    {j \in (sel + 1)..(Len(m.log_list) - 1) :
        ~IsPrefix(p, m.log_list_tree_positions[j + 1])}

\* the step just taken was next-sibling from a last child some ancestor of
\* which has a following sibling
C4_Case ==
    /\ last.msg = "SelectNextSiblingNode"
    /\ SelectedOk(last.before)
    /\ Len(get_selected_tree_position(last.before)) > 1
    /\ ~HasNextSibling(Tree(last.before), get_selected_tree_position(last.before))
    /\ NearestWithNext(Tree(last.before), get_selected_tree_position(last.before)) # None

\* C4: next-sibling from a last child selects the next sibling of the
\* nearest ancestor that has a following sibling, at whatever level that
\* ancestor is, and the item selected is the first flattened item after the
\* subject's visible subtree; nothing but the selection changes.
C4_NextSiblingOfAncestor ==
    C4_Case =>
        LET b == last.before
            p == get_selected_tree_position(b)
            a == Unwrap(NearestWithNext(Tree(b), p))
            target == get_tree_node(Tree(b), NextSiblingPos(a))
            after == AfterSubtree(b, log_selected(b), p)
        IN /\ last.res = "ok"
           /\ target.res = "ok"
           /\ model = log_select(b, target.node.flat_log_idx)
           /\ after # {}
           /\ \A j \in after : target.node.flat_log_idx <= j
           /\ target.node.flat_log_idx \in after

\* next-sibling from the last line of the last hunk of the last file of a
\* change landed on the next top-level entry
C4_Witness ==
    /\ C4_Case
    /\ Len(get_selected_tree_position(last.before)) = DIFF_HUNK_LINE_IDX + 1
    /\ Running
    /\ Len(get_selected_tree_position(model)) = 1
    /\ log_selected(model) > log_selected(last.before)

\* the viewport repeated scroll-down calls end in: the selection and the
\* offset are both on the last item
AtEnd(m) ==
    /\ m.log_list # <<>>
    /\ m.log_list_state.selected = Some(Len(m.log_list) - 1)
    /\ m.log_list_state.offset = Len(m.log_list) - 1

\* C7 as stated: once repeated scroll-down calls have put the selection on
\* the last item, with the offset on it too, a further scroll-down call
\* leaves the selection and the offset as they were.
C7_ScrollDownAtEndNoDrift ==
    (last.msg = "ScrollDown" /\ AtEnd(last.before))
    => /\ last.res = "ok"
       /\ model.log_list_state.selected = last.before.log_list_state.selected
       /\ model.log_list_state.offset = last.before.log_list_state.offset

\* the node a fold toggle was about, before and after the step just taken
ToggledBefore == Subject(last.before).node
ToggledAfter == get_tree_node(Tree(model), Subject(last.before).at).node

\* C8 as stated: when the child load of a fold toggle fails on malformed
\* output, the session keeps running and the node is folded and unloaded as
\* before the toggle.
C8_ParseFailureKeepsSession ==
    (/\ last.msg = "ToggleLogListFold"
     /\ last.oc.load = "malformed"
     /\ last.queries # <<>>)
    => /\ exit = "none"
       /\ model.state = "Running"
       /\ ToggledAfter.unfolded = ToggledBefore.unfolded
       /\ ToggledAfter.loaded = ToggledBefore.loaded

(***************************************************************************)
(* Properties of the chords and of the action commands.                    *)
(***************************************************************************)
\* the node the keys in the buffer before the step, with the key of the
\* step, lead to
FedNode == CommandTree_get_node(CommandTree_new, Append(last.before.command_keys, last.key))

\* the step just taken fed a key that is unbound under a pending prefix
C5_Case ==
    /\ last.msg = "CommandKey"
    /\ last.before.command_keys # <<>>
    /\ FedNode = None

\* C5 as stated: a key that is unbound under the pending prefix leaves the
\* buffer empty.
C5_NoMatchEmptiesBuffer == C5_Case => model.command_keys = <<>>

\* feeding the keys of item from the i-th on gives no message on each proper
\* prefix, which stays in the buffer, and the item's message on the last
\* key, which empties the buffer
RECURSIVE ChordFed(_, _, _)
ChordFed(m, item, i) ==
    LET Fed(h) ==
            IF i < Len(item.key_codes)
            THEN /\ h.res = "ok"
                 /\ h.msg = None
                 /\ h.m.command_keys = SubSeq(item.key_codes, 1, i)
                 /\ ChordFed(h.m, item, i + 1)
            ELSE /\ h.res = "ok"
                 /\ h.msg = Some(item.node.message)
                 /\ h.m.command_keys = <<>>
    IN Fed(handle_command_key(m, item.key_codes[i]))

\* C6: wherever the session waits for an event with an empty buffer, the
\* keys of every chord CommandTree::new registers return no action on each
\* proper prefix and the chord's action on the last key, and the buffer is
\* empty after it; and the buffer is empty after the update in which a chord
\* was finished.
C6_ChordCompletes ==
    /\ (Running /\ pc = "update" /\ model.command_keys = <<>>) =>
          \A i \in 1..Len(CommandTree_items) :
             CommandTree_items[i].node.kind = "Action"
                => ChordFed(model, CommandTree_items[i], 1)
    /\ (/\ last.msg = "CommandKey"
        /\ FedNode # None
        /\ Unwrap(FedNode).kind = "Action")
       => model.command_keys = <<>>

\* b, s, m: the last key ran the command of the chord and the buffer is empty
C6_Witness ==
    /\ last.msg = "CommandKey"
    /\ last.key = "m"
    /\ last.before.command_keys = <<"b", "s">>
    /\ last.before.info_list # None
    /\ last.queries # <<>> /\ last.queries[1] = "action"
    /\ model.command_keys = <<>>

InSeq(x, s) == \E i \in 1..Len(s) : s[i] = x

\* a query of the step just taken ran and reported failure
FailedQuery ==
    \/ last.oc.cmd = "failed" /\ InSeq("action", last.queries)
    \/ last.oc.log = "failed" /\ InSeq("log", last.queries)
    \/ /\ last.oc.load = "failed"
       /\ (InSeq("diff_summary", last.queries) \/ InSeq("diff_file", last.queries))

\* C9 as stated: whichever operation of a running session issued it, a query
\* that ran and reported failure does not end the session.
C9_FailedNeverEndsSession ==
    (last.msg # "new" /\ FailedQuery) => (exit = "none" /\ model.state = "Running")

\* the step just taken ran an action command that reported failure
C10_Case ==
    /\ last.msg \in {"CommandKey", "Show"}
    /\ last.oc.cmd = "failed"
    /\ InSeq("action", last.queries)

\* C10: when an action command reports failure, the handler returns Ok, the
\* info display holds the text of the diagnostic, the only query of the step
\* is the command (no reload), and the tree, the flattened lists, the
\* selection and the offset are those of before the command.
C10_FailedCommandKeepsView ==
    C10_Case =>
        /\ last.res = "ok"
        /\ exit = "none"
        /\ last.queries = <<"action">>
        /\ model = [last.before EXCEPT
                       !.command_keys = <<>>,
                       !.info_list = Some(into_text(trim(last.oc.text)))]

\* a chord ran a command that failed with a diagnostic, below a list whose
\* selection had been moved
C10_Witness ==
    /\ C10_Case
    /\ last.msg = "CommandKey"
    /\ last.oc.text = "done\n"
    /\ model.info_list = Some(into_text("done"))
    /\ log_selected(model) > 0
    /\ Tree(model) = Tree(last.before)

\* the step just taken fed a key with no binding at the position of the buffer
UnboundFed == last.msg = "CommandKey" /\ FedNode = None

\* C11 as stated: a key with no binding at the position of the buffer never
\* fails or ends the session, whatever the info display holds, and leaves
\* the tree, the flattened lists, the selection and the offset as they were.
C11_UnboundKeyNeverFails ==
    UnboundFed =>
        /\ last.res = "ok"
        /\ exit = "none"
        /\ Tree(model) = Tree(last.before)
        /\ Items(model) = Items(last.before)
        /\ model.log_list_state = last.before.log_list_state

(***************************************************************************)
(* Fold toggles and sibling moves at the leaves of the tree.               *)
(***************************************************************************)
\* the step just taken was a fold toggle with a DiffHunkLine selected
C12_Case ==
    /\ last.msg = "ToggleLogListFold"
    /\ SelectedOk(last.before)
    /\ Len(get_selected_tree_position(last.before)) = DIFF_HUNK_LINE_IDX + 1

\* C12 as stated: a fold toggle with a DiffHunkLine selected changes no fold
\* state, leaves the flattened lists as they were and the selection on the
\* line.
C12_ToggleOnLineNoOp ==
    C12_Case =>
        /\ last.res = "ok"
        /\ Tree(model) = Tree(last.before)
        /\ Items(model) = Items(last.before)
        /\ model.log_list_state.selected = last.before.log_list_state.selected

\* the indices (from 1) of the flattened items of m that are not below
\* position p
NotBelow(m, p) ==
    {j \in 1..Len(m.log_list_tree_positions) :
        ~(IsPrefix(p, m.log_list_tree_positions[j]) /\ m.log_list_tree_positions[j] # p)}

\* C12: a fold toggle with a DiffHunkLine selected acts on the DiffHunk the
\* line belongs to (JjLog::toggle_fold truncates the position to the depth of
\* a hunk): it sends no query, the hunk is folded and keeps its lines, the
\* lines of the hunk leave the flattened lists and every other item stays, but
\* for the fold symbol of the hunk, and the selection moves to the hunk.
C12_ToggleOnLineFoldsHunk ==
    C12_Case =>
        LET b == last.before
            p == get_selected_tree_position(b)
            hunk_pos == Front(p)
            hunk == get_tree_node(Tree(b), hunk_pos).node
            after == get_tree_node(Tree(model), hunk_pos).node
            kept == NotBelow(b, hunk_pos)
        IN /\ last.res = "ok" /\ last.queries = <<>>
           /\ hunk.unfolded /\ ~after.unfolded
           /\ Len(after.diff_hunk_lines) = Len(hunk.diff_hunk_lines)
           /\ Len(model.log_list) = Cardinality(kept)
           /\ Len(model.log_list) = Len(b.log_list) - Len(hunk.diff_hunk_lines)
           /\ \A j \in kept :
                 LET k == Cardinality({i \in kept : i <= j})
                 IN /\ model.log_list_tree_positions[k] = b.log_list_tree_positions[j]
                    /\ b.log_list_tree_positions[j] # hunk_pos
                          => model.log_list[k] = b.log_list[j]
           /\ model.log_list_state.selected = Some(hunk.flat_log_idx)
           /\ get_selected_tree_position(model) = hunk_pos
           /\ model.log_list_state.offset = b.log_list_state.offset

\* the toggle was made on the second line of a hunk: the hunk is folded and
\* selected
C12_Witness ==
    /\ C12_Case
    /\ Last(get_selected_tree_position(last.before)) = 1
    /\ Len(get_selected_tree_position(model)) = DIFF_HUNK_IDX + 1
    /\ ~get_tree_node(Tree(model), get_selected_tree_position(model)).node.unfolded

\* the position previous-sibling would select from subject q if it went up a
\* level from each first child: the previous sibling of the nearest ancestor
\* (q itself first) that has one, and the first top-level entry when none has
RECURSIVE PrevOfNearest(_)
PrevOfNearest(q) ==
    IF Last(q) > 0 THEN Append(Front(q), Last(q) - 1)
    ELSE IF Len(q) = 1 THEN q
    ELSE PrevOfNearest(Front(q))

\* the step just taken was previous-sibling from the first child of a parent
C13_Case ==
    /\ last.msg = "SelectPrevSiblingNode"
    /\ SelectedOk(last.before)
    /\ Len(get_selected_tree_position(last.before)) > 1
    /\ Last(get_selected_tree_position(last.before)) = 0

\* C13 as stated: previous-sibling from a first child (of a change or of a
\* file) selects the previous sibling of the nearest ancestor that has one,
\* and the first top-level entry when no ancestor has one.
C13_PrevSiblingOfAncestor ==
    (C13_Case /\ Len(get_selected_tree_position(last.before)) <= DIFF_HUNK_IDX + 1)
    => /\ last.res = "ok"
       /\ get_selected_tree_position(model)
             = PrevOfNearest(Front(get_selected_tree_position(last.before)))

\* C13: previous-sibling from a first child selects the parent itself, the
\* item just above the child in the flattened list, at every level, and does
\* not go on to a sibling of the parent; nothing but the selection changes.
C13_PrevSiblingSelectsParent ==
    C13_Case =>
        LET b == last.before
            p == get_selected_tree_position(b)
            parent == get_tree_node(Tree(b), Front(p))
        IN /\ last.res = "ok"
           /\ parent.res = "ok"
           /\ model = log_select(b, parent.node.flat_log_idx)
           /\ get_selected_tree_position(model) = Front(p)
           /\ log_selected(model) = log_selected(b) - 1

\* previous-sibling from the first hunk of a file selected the file, where
\* going up with the parent as the subject would have ended on the change
C13_Witness ==
    /\ C13_Case
    /\ Len(get_selected_tree_position(last.before)) = DIFF_HUNK_IDX + 1
    /\ Len(get_selected_tree_position(model)) = FILE_DIFF_IDX + 1
    /\ PrevOfNearest(get_selected_tree_position(model)) # get_selected_tree_position(model)

\* the Model before the step just taken, with the selection moved from the
\* DiffHunkLine to the DiffHunk it belongs to
OnParentHunk ==
    log_select(last.before,
               get_tree_node(Tree(last.before),
                             Front(get_selected_tree_position(last.before))).node.flat_log_idx)

\* the step just taken was a sibling request with a DiffHunkLine selected
C14_Case ==
    /\ last.msg \in {"SelectNextSiblingNode", "SelectPrevSiblingNode"}
    /\ SelectedOk(last.before)
    /\ Len(get_selected_tree_position(last.before)) = DIFF_HUNK_LINE_IDX + 1

\* C14 as stated: with a DiffHunkLine selected, next-sibling and
\* previous-sibling give the selection that the same request gives with the
\* line's DiffHunk selected.
C14_LineSiblingAsHunk ==
    C14_Case =>
        LET Same(r) == r.res = last.res /\ r.m = model
        IN IF last.msg = "SelectNextSiblingNode"
           THEN Same(select_current_next_sibling_node(OnParentHunk))
           ELSE Same(select_current_prev_sibling_node(OnParentHunk))

\* C14: with a DiffHunkLine selected, next-sibling gives the selection that
\* next-sibling gives with the line's DiffHunk selected, and previous-sibling
\* selects that DiffHunk itself, without applying the sibling logic to it;
\* nothing but the selection changes.
C14_LineSiblingNextAsHunkPrevHunk ==
    C14_Case =>
        LET Same(r) == r.res = last.res /\ r.m = model
        IN /\ last.res = "ok"
           /\ model.log_list_state.offset = last.before.log_list_state.offset
           /\ IF last.msg = "SelectNextSiblingNode"
              THEN Same(select_current_next_sibling_node(OnParentHunk))
              ELSE model = OnParentHunk

\* previous-sibling from a line of a file's second hunk selected that hunk,
\* not the first hunk
C14_Witness ==
    /\ C14_Case
    /\ last.msg = "SelectPrevSiblingNode"
    /\ get_selected_tree_position(last.before)[DIFF_HUNK_IDX + 1] = 1
    /\ Len(get_selected_tree_position(model)) = DIFF_HUNK_IDX + 1
    /\ Last(get_selected_tree_position(model)) = 1

\* the step just taken was select-parent
C15_Case == last.msg = "SelectParentNode" /\ SelectedOk(last.before)

\* C15: select-parent moves the selection to the flattened index of the node
\* at the selected position without its last component, and leaves it where
\* it is on a top-level entry; the offset, the tree with its fold states and
\* the flattened lists stay as they were.
C15_SelectParent ==
    C15_Case =>
        LET b == last.before
            p == get_selected_tree_position(b)
        IN /\ last.res = "ok"
           /\ model.log_list_state.offset = b.log_list_state.offset
           /\ Tree(model) = Tree(b)
           /\ Items(model) = Items(b)
           /\ model = [b EXCEPT !.log_list_state.selected = model.log_list_state.selected]
           /\ IF Len(p) = 1
              THEN model.log_list_state.selected = b.log_list_state.selected
              ELSE /\ SelectedOk(model)
                   /\ get_selected_tree_position(model) = Front(p)
                   /\ get_tree_node(Tree(b), Front(p)).node.flat_log_idx
                         = log_selected(model)

\* select-parent from a hunk selected the file of the hunk, some rows above
C15_Witness ==
    /\ C15_Case
    /\ Len(get_selected_tree_position(last.before)) = DIFF_HUNK_IDX + 1
    /\ Last(get_selected_tree_position(last.before)) = 1
    /\ Len(get_selected_tree_position(model)) = FILE_DIFF_IDX + 1
    /\ log_selected(model) < log_selected(last.before) - 1

(***************************************************************************)
(* Lazy loading and the selection after a load.                            *)
(***************************************************************************)
\* what tells the children of a node apart: the paths of the files of a
\* Commit, the lines of the hunks of a FileDiff
ChildList(node) ==
    IF node.kind = "Commit"
    THEN [i \in 1..Len(node.file_diffs) |-> node.file_diffs[i].path]
    ELSE [i \in 1..Len(node.diff_hunks) |->
            [k \in 1..Len(node.diff_hunks[i].diff_hunk_lines) |->
                node.diff_hunks[i].diff_hunk_lines[k].pretty_string]]

\* the query that loads the children of a node
LoadQuery(node) == IF node.kind = "Commit" THEN "diff_summary" ELSE "diff_file"

\* the step just taken was a fold toggle on a Commit or a FileDiff
C16_Case ==
    /\ last.msg = "ToggleLogListFold"
    /\ SelectedOk(last.before)
    /\ ToggledBefore.kind \in {"Commit", "FileDiff"}

\* C16: a Commit or FileDiff whose children are not loaded is folded, and its
\* first toggle, which unfolds it, sends the one query that loads them; once
\* they are loaded every toggle on the node sends no query and leaves the
\* list of its children as it is, and the node stays loaded.
C16_LoadsOnce ==
    C16_Case =>
        IF ToggledBefore.loaded
        THEN /\ last.res = "ok"
             /\ last.queries = <<>>
             /\ ToggledAfter.loaded
             /\ ToggledAfter.unfolded = ~ToggledBefore.unfolded
             /\ ChildList(ToggledAfter) = ChildList(ToggledBefore)
        ELSE /\ ~ToggledBefore.unfolded
             /\ last.queries = <<LoadQuery(ToggledBefore)>>
             /\ last.res = "ok" => (ToggledAfter.loaded /\ ToggledAfter.unfolded)

\* a file that had been unfolded and folded was unfolded again: no query was
\* sent and its hunks are those loaded the first time
C16_Witness ==
    /\ C16_Case
    /\ ToggledBefore.kind = "FileDiff"
    /\ ToggledBefore.loaded /\ ~ToggledBefore.unfolded
    /\ ToggledAfter.unfolded
    /\ Len(ToggledAfter.diff_hunks) = 2
    /\ last.queries = <<>>

\* the step just taken loaded or reloaded the log, with success
C17_Case == last.res = "ok" /\ InSeq("log", last.queries)

\* C17: after every load or reload of the log that succeeds (Model::new,
\* Refresh, the reload after a successful command), if a Commit has the
\* working-copy flag, the first that has it is unfolded, its files are
\* loaded, and the selection is its flattened index.
C17_SyncSelectsWorkingCopy ==
    (C17_Case /\ get_current_commit(Tree(model)) # None) =>
        LET commit == Unwrap(get_current_commit(Tree(model)))
        IN /\ commit.current_working_copy
           /\ commit.unfolded
           /\ commit.loaded
           /\ ChildList(commit)
                 = [i \in 1..Len(FilesOf(world, commit.change_id)) |->
                       FilesOf(world, commit.change_id)[i].path]
           /\ SelectedOk(model)
           /\ log_selected(model) = commit.flat_log_idx
           /\ get_tree_node(Tree(model), get_selected_tree_position(model)).node = commit

\* a command was run from the first entry and the reload after it selected
\* the working copy, which is now the second change of the log
C17_Witness ==
    /\ C17_Case
    /\ last.msg = "CommandKey"
    /\ get_current_commit(Tree(model)) # None
    /\ get_selected_tree_position(model) = <<1>>
    /\ log_selected(model) = 1
    /\ log_selected(last.before) = 0
    /\ Tree(model)[2].unfolded /\ ~Tree(model)[1].unfolded

(***************************************************************************)
(* Commands that hand the terminal to jj, and the pending keys.            *)
(***************************************************************************)
\* the message the step just taken gave to handle_msg, if it gave one
StepMessage ==
    IF last.msg = "CommandKey"
    THEN IF FedNode # None /\ Unwrap(FedNode).kind = "Action"
         THEN Unwrap(FedNode).message ELSE ""
    ELSE last.msg

\* the commands built with the terminal (JjCommand::show, describe, commit
\* and squash_interactive, which jj_squash takes for a change with a
\* description)
Interactive(m, msg) ==
    \/ msg \in {"Show", "Describe", "Commit"}
    \/ /\ msg = "Squash"
       /\ SelectedOk(m)
       /\ get_tree_commit(Tree(m), get_selected_tree_position(m)) # None
       /\ Unwrap(get_tree_commit(Tree(m), get_selected_tree_position(m)))
             .description_first_line # None

\* the step just taken ran a command that hands the terminal to jj, and the
\* session goes on
C18_Case ==
    /\ Interactive(last.before, StepMessage)
    /\ InSeq("action", last.queries)
    /\ last.res = "ok"

\* C18 as stated: after a command that hands the terminal to jj, the selected
\* index and the offset are those of before the command, whether jj succeeded
\* or failed.
C18_InteractiveKeepsViewport ==
    C18_Case =>
        /\ model.log_list_state.selected = last.before.log_list_state.selected
        /\ model.log_list_state.offset = last.before.log_list_state.offset

\* the step just taken was given a message other than a chord key or Clear
\* while keys were pending
C19_Case ==
    /\ last.msg \notin {"", "new", "CommandKey", "Clear"}
    /\ last.before.command_keys # <<>>

\* what the navigation, scroll, mouse and fold handlers return on model m
NavResults(m, w) ==
    {select_next_node(m), select_prev_node(m),
     select_current_next_sibling_node(m), select_current_prev_sibling_node(m),
     select_parent_node(m), select_current_working_copy(m),
     scroll_down_once(m), scroll_up_once(m),
     scroll_down_page(m), scroll_up_page(m)}
    \cup {toggle_current_fold(m, w, o) : o \in Outcomes}
    \cup {handle_mouse_click(m, row, column) :
             row \in 0..(w.term.height - 1), column \in 0..(w.term.width - 1)}
    \cup UNION {{right_mouse_click(m, w, row, column, o) : o \in Outcomes} :
                   row \in 0..(w.term.height - 1),
                   column \in 0..(w.term.width - 1)}

\* C19 as stated: pending keys are changed only by a chord key or by Clear;
\* any other operation, a directly bound command such as show included,
\* leaves them pending.
C19_OnlyChordOrClearChangesBuffer ==
    C19_Case => model.command_keys = last.before.command_keys

\* C19: pending keys are changed by a chord key, by Clear, and by every action
\* command that runs (handle_jj_command_result starts with clear): a show
\* that runs empties the buffer, whether it succeeds or fails.  Navigation,
\* scroll, mouse, fold toggle, help, reload and a show with no change selected
\* leave the pending keys unchanged.
C19_BufferChangedByChordClearOrCommand ==
    /\ C19_Case =>
          IF InSeq("action", last.queries)
          THEN model.command_keys = <<>>
          ELSE model.command_keys = last.before.command_keys
    /\ model.command_keys # <<>> =>
          \A r \in NavResults(model, world) : r.m.command_keys = model.command_keys

\* a show ran while keys were pending and emptied the buffer
C19_Witness ==
    /\ C19_Case
    /\ last.msg = "Show"
    /\ InSeq("action", last.queries)
    /\ last.res = "ok"
    /\ model.command_keys = <<>>

\* the step just taken fed a key that leads to a node with children
C20_Case ==
    /\ last.msg = "CommandKey"
    /\ FedNode # None
    /\ Unwrap(FedNode).kind = "Children"

\* the entries of CommandTree::new one key below the key sequence keys
EdgesBelow(keys) ==
    {i \in 1..Len(CommandTree_items) :
        /\ Len(CommandTree_items[i].key_codes) = Len(keys) + 1
        /\ Front(CommandTree_items[i].key_codes) = keys}

\* the places of text where a key label stands: line and span
KeyLabels(text) ==
    {<<l, j>> \in (1..Len(text)) \X (1..8) :
        j <= Len(text[l]) /\ text[l][j].style = "Green"}

\* C20: a key that leads to an internal node of the trie returns no message
\* (no command runs, the session goes on, the tree and the selection stay),
\* the buffer is the previous buffer followed by the key, and the info
\* display is replaced by the help of the node: one line per outgoing edge,
\* with the key of the edge and its help text, and nothing of what was shown.
C20_PartialMatch ==
    C20_Case =>
        /\ last.res = "ok" /\ Running
        /\ last.queries = <<>>
        /\ KeyMessage(last.before, last.key) = None
        /\ model.command_keys = Append(last.before.command_keys, last.key)
        /\ Tree(model) = Tree(last.before)
        /\ Items(model) = Items(last.before)
        /\ model.log_list_state = last.before.log_list_state
        /\ model.info_list # None
        /\ LET text == Unwrap(model.info_list)
               edges == EdgesBelow(model.command_keys)
           IN /\ text = CommandTreeNodeChildren_get_help(Unwrap(FedNode))
              /\ Cardinality(edges) = Cardinality(DOMAIN Unwrap(FedNode).nodes)
              /\ Cardinality(KeyLabels(text)) = Cardinality(edges)
              /\ \A i \in edges :
                    \E p \in KeyLabels(text) :
                       /\ text[p[1]][p[2]].content = Last(CommandTree_items[i].key_codes)
                       /\ text[p[1]][p[2] + 2].content = CommandTree_items[i].help_text
              /\ \A l \in 1..Len(text) :
                    \A j \in 1..Len(text[l]) : text[l][j].style # "Red"

\* b, then s, with the output of an earlier command on the info display: the
\* buffer holds b, s and the display shows the one edge below it, m
C20_Witness ==
    /\ C20_Case
    /\ last.key = "s"
    /\ last.before.command_keys = <<"b">>
    /\ model.command_keys = <<"b", "s">>
    /\ model.info_list # None
    /\ model.info_list # last.before.info_list
    /\ \E p \in KeyLabels(Unwrap(model.info_list)) :
          Unwrap(model.info_list)[p[1]][p[2]].content = "m"

(***************************************************************************)
(* The annotation of an unbound key.                                       *)
(***************************************************************************)
\* the step just taken fed a key that is unbound under the pending keys
C21_Case == last.msg = "CommandKey" /\ FedNode = None

\* the lines of text that are an annotation of an unbound key
ErrorLines(text) ==
    {l \in 1..Len(text) : Len(text[l]) > 0 /\ text[l][1] = ErrorLine("")[1]}

\* the info display has one annotation, of the key just fed, as its last line,
\* and feeding the key again leaves the same lines
Coalesced ==
    /\ model.info_list # None
    /\ LET text == Unwrap(model.info_list)
           again == handle_command_key(model, last.key)
       IN /\ ErrorLines(text) = {Len(text)}
          /\ Last(text) = ErrorLine(last.key)
          /\ again.res = "ok"
          /\ again.m.info_list = model.info_list
          /\ handle_command_key(again.m, last.key).m.info_list = model.info_list

\* C21: feeding an unbound key leaves exactly one annotation, of that key, in
\* the info display, and feeding it again leaves the same lines, whatever the
\* display showed before: nothing, help, or the output of a command.
C21_UnboundErrorsCoalesce == C21_Case => (last.res = "ok" /\ Running /\ Coalesced)

(***************************************************************************)
(* Properties of the loaders.                                              *)
(***************************************************************************)
\* the step just taken unfolded the change kA, whose files were not loaded,
\* and the collaborator answered the diff summary
LoadedFiles ==
    /\ last.msg = "ToggleLogListFold"
    /\ last.oc.load = "ok"
    /\ SelectedOk(last.before)
    /\ Subject(last.before).res = "ok"
    /\ ToggledBefore.kind = "Commit"
    /\ ToggledBefore.change_id = "kA"
    /\ ~ToggledBefore.loaded

C22_Case == LoadedFiles /\ FilesOf(world, "kA") \in TrailingBraceDiffs

\* C22: a line of status R or C whose path is a prefix and a brace group at
\* its end, src/{old.rs => new.rs}, with or without colour, loads: the change
\* is unfolded with one file, whose path is the prefix joined with the new
\* part, src/new.rs, which is the path the file is at, and the hunks of the
\* file load with that path.
C22_TrailingBraceRename ==
    C22_Case =>
        /\ last.res = "ok" /\ Running
        /\ ToggledAfter.loaded /\ ToggledAfter.unfolded
        /\ Len(ToggledAfter.file_diffs) = 1
        /\ LET file_diff == ToggledAfter.file_diffs[1]
           IN /\ file_diff.status \in {"R", "C"}
              /\ file_diff.description = "src/{old.rs => new.rs}"
              /\ file_diff.path = "src/new.rs"
              /\ file_diff.path = FilesOf(world, "kA")[1].path
              /\ DiffHunk_load_all(world, "kA", file_diff.path, "ok").res = "ok"

\* the renamed file is loaded and shown
C22_Witness ==
    /\ C22_Case
    /\ last.res = "ok"
    /\ ToggledAfter.file_diffs[1].status = "R"
    /\ ToggledAfter.file_diffs[1].path = "src/new.rs"
    /\ Len(model.log_list) = Len(last.before.log_list) + 1

C23_Case == LoadedFiles /\ FilesOf(world, "kA") \in MiddleBraceDiffs

\* C23: a line of status R or C whose brace group is in the middle of the
\* path, a/{x => y}/b.rs, loads: the change is unfolded with one file, whose
\* path is the prefix, the new part and the suffix, a/y/b.rs.
C23_MiddleBraceRename ==
    C23_Case =>
        /\ last.res = "ok" /\ Running
        /\ ToggledAfter.loaded
        /\ Len(ToggledAfter.file_diffs) = 1
        /\ ToggledAfter.file_diffs[1].path = "a/y/b.rs"

\* the numbers of one side ("before" or "after") of the lines of a hunk of
\* the collaborator, in the order of the lines
SideNumbers(block, side) ==
    LET Num(l) == IF side = "before" THEN l.before ELSE l.after
        numbered == {i \in 1..Len(block) : Num(block[i]) # 0}
    IN [first |-> IF numbered = {} THEN 0
                  ELSE Num(block[CHOOSE i \in numbered : \A j \in numbered : i <= j]),
        last |-> IF numbered = {} THEN 0
                 ELSE Num(block[CHOOSE i \in numbered : \A j \in numbered : j <= i]),
        none |-> numbered = {}]

\* the range of a side: its first number and the count of its lines
SideRange(block, side) ==
    LET s == SideNumbers(block, side)
    IN IF s.none THEN <<0, 0>> ELSE <<s.first, s.last - s.first + 1>>

\* the hunks of the files of kA that are loaded: file and hunk, from 1
LoadedHunks ==
    IF Len(Tree(model)) < 2 \/ ~Tree(model)[2].loaded THEN {}
    ELSE {fh \in (1..Len(Tree(model)[2].file_diffs)) \X (1..2) :
             /\ Tree(model)[2].file_diffs[fh[1]].loaded
             /\ fh[2] <= Len(Tree(model)[2].file_diffs[fh[1]].diff_hunks)}

\* C24: a loaded hunk holds, for each side, the first and the last number of
\* the lines of the hunk (0 and 0 for a side with no numbered line), and its
\* header shows for each side the first number and the count last - first +
\* 1, or 0 and 0; the divider after the last hunk is skipped by the search
\* and gives no number.
C24_HunkRanges ==
    \A fh \in LoadedHunks :
       LET hunk == Tree(model)[2].file_diffs[fh[1]].diff_hunks[fh[2]]
           block == FilesOf(world, "kA")[fh[1]].hunks[fh[2]]
           red == SideNumbers(block, "before")
           green == SideNumbers(block, "after")
           down == DiffHunk_find_line_nums(hunk.diff_hunk_lines, "Down")
           up == DiffHunk_find_line_nums(hunk.diff_hunk_lines, "Up")
       IN /\ hunk.red_start = red.first /\ hunk.red_end = red.last
          /\ hunk.green_start = green.first /\ hunk.green_end = green.last
          /\ DiffHunk_render(hunk, world.overflow_checks).res = "ok"
          /\ DiffHunk_render(hunk, world.overflow_checks).item.lines[1]
                = "@@ -" \o to_string(SideRange(block, "before")[1])
                     \o "," \o to_string(SideRange(block, "before")[2])
                     \o " +" \o to_string(SideRange(block, "after")[1])
                     \o "," \o to_string(SideRange(block, "after")[2]) \o " @@"
          /\ down.res = "ok" /\ up.res = "ok"
          /\ <<down.red, up.red, down.green, up.green>>
                = <<red.first, red.last, green.first, green.last>>

\* the step just taken loaded the hunks of m.rs: the first has lines 12 to 15
\* before and 12 to 16 after and shows (12, 4) and (12, 5), and the last
\* ends with the divider
C24_Witness ==
    /\ last.msg = "ToggleLogListFold"
    /\ last.queries = <<"diff_file">>
    /\ last.res = "ok"
    /\ <<1, 2>> \in LoadedHunks
    /\ LET hunks == Tree(model)[2].file_diffs[1].diff_hunks
       IN /\ DiffHunk_render(hunks[1], world.overflow_checks).item.lines[1]
                = "@@ -12,4 +12,5 @@"
          /\ DiffHunk_render(hunks[2], world.overflow_checks).item.lines[1]
                = "@@ -120,3 +120,2 @@"
          /\ strip_ansi(Last(hunks[2].diff_hunk_lines).pretty_string) = "~"
          /\ \E i \in 1..Len(model.log_list) :
                /\ model.log_list[i].kind = "DiffHunk"
                /\ model.log_list[i]
                      = DiffHunk_render(hunks[1], world.overflow_checks).item

(***************************************************************************)
(* Properties of the scrolls.                                              *)
(***************************************************************************)
\* the step just taken was a page scroll, on a list with a selection
C25_Case ==
    /\ last.msg \in {"ScrollDownPage", "ScrollUpPage"}
    /\ SelectedOk(last.before)

PageDirection == IF last.msg = "ScrollDownPage" THEN "Down" ELSE "Up"

\* the item the walk of a page from the offset reaches
PageWalk ==
    line_dist_to_dest_node(last.before, last.before.log_list_layout.height,
                           log_offset(last.before), PageDirection)

\* the walk of a scroll down lands on the last item; the walk of a scroll up
\* lands on item 0 with the offset on item 0
PageLastHit ==
    PageDirection = "Down" /\ PageWalk.node = Len(last.before.log_list) - 1
PageTopHit ==
    PageDirection = "Up" /\ PageWalk.node = 0 /\ log_offset(last.before) = 0

\* C25: a page scroll puts the offset on the item the walk of a page from the
\* offset reaches, and the selection as far from the offset as it was; but a
\* scroll down whose walk lands on the last item leaves the offset as it was
\* (and selects the last item), and a scroll up whose walk lands on item 0
\* with the offset on item 0 selects item 0.
C25_PageScroll ==
    C25_Case =>
        /\ last.res = "ok" /\ PageWalk.res = "ok"
        /\ model.log_list_state.selected # None
        /\ IF PageLastHit
           THEN /\ log_offset(model) = log_offset(last.before)
                /\ log_selected(model) = Len(last.before.log_list) - 1
           ELSE IF PageTopHit
           THEN /\ log_offset(model) = 0
                /\ log_selected(model) = 0
           ELSE /\ log_offset(model) = PageWalk.node
                /\ log_selected(model) - log_offset(model)
                      = log_selected(last.before) - log_offset(last.before)
        /\ Tree(model) = Tree(last.before)
        /\ Items(model) = Items(last.before)

\* a page down moved the offset, and the selection with it, two items below
\* the offset as before
C25_Witness ==
    /\ C25_Case
    /\ last.msg = "ScrollDownPage"
    /\ ~PageLastHit
    /\ log_offset(model) > log_offset(last.before)
    /\ log_selected(last.before) - log_offset(last.before) = 2
    /\ log_selected(model) - log_offset(model) = 2

\* the lines of the items from a to b of a list (indexes from 0)
RECURSIVE LinesBetween(_, _, _)
LinesBetween(log_list, a, b) ==
    IF a > b THEN 0 ELSE Len(log_list[a + 1].lines) + LinesBetween(log_list, a + 1, b)

\* the item a walk from s over distance d has to reach: the first one from s
\* on with which the lines from s exceed d, or the end of the list on that
\* side when there is none
WalkTarget(log_list, d, s, direction) ==
    LET n == Len(log_list)
        passed == IF direction = "Down"
                  THEN {j \in s..(n - 1) : LinesBetween(log_list, s, j) > d}
                  ELSE {j \in 0..s : LinesBetween(log_list, j, s) > d}
    IN IF passed = {} THEN (IF direction = "Down" THEN n - 1 ELSE 0)
       ELSE IF direction = "Down" THEN CHOOSE j \in passed : \A k \in passed : j <= k
       ELSE CHOOSE j \in passed : \A k \in passed : k <= j

\* the distances a walk is asked for: up to a page, and one more
WalkDistances == 0..(TermHeight + 1)

\* C26: on a list with items, from every item and for every distance and
\* direction, the walk ends, on an item of the list: the first item reached
\* with which the lines traversed exceed the distance, or the last item
\* (down) or item 0 (up) when the list ends before.  Every item has a line or
\* more.
C26_WalkTarget ==
    /\ \A i \in 1..Len(model.log_list) : Len(model.log_list[i].lines) >= 1
    /\ \A s \in 0..(Len(model.log_list) - 1), d \in WalkDistances,
          direction \in {"Down", "Up"} :
          LET w == line_dist_to_dest_node(model, d, s, direction)
          IN /\ w.res = "ok"
             /\ w.node \in 0..(Len(model.log_list) - 1)
             /\ w.node = WalkTarget(model.log_list, d, s, direction)

\* a page down took the offset from the change of two lines at item 0 to an
\* item that is fewer items away than the page has lines, and not the last
C26_Witness ==
    /\ C25_Case
    /\ last.msg = "ScrollDownPage"
    /\ last.res = "ok"
    /\ log_offset(last.before) = 0
    /\ Len(last.before.log_list[1].lines) = 2
    /\ log_offset(model)
          = WalkTarget(last.before.log_list, last.before.log_list_layout.height,
                       0, "Down")
    /\ log_offset(model) < last.before.log_list_layout.height
    /\ log_offset(model) < Len(model.log_list) - 1
    /\ log_offset(model) > 0

(***************************************************************************)
(* Properties of the help.                                                 *)
(***************************************************************************)
\* the characters of the key labels, in the order of their bytes
AsciiOrder == " -/<>?@CDEKPTU^abcdefghijklmnopqrstuvwxyz"

\* a < b in the order of str: by the first character that differs, a proper
\* prefix first
RECURSIVE StrLess(_, _)
StrLess(a, b) ==
    IF Len(b) = 0 THEN FALSE
    ELSE IF Len(a) = 0 THEN TRUE
    ELSE IF Ch(a, 1) = Ch(b, 1) THEN StrLess(Sub(a, 2, Len(a)), Sub(b, 2, Len(b)))
    ELSE Find(AsciiOrder, Ch(a, 1), 1) < Find(AsciiOrder, Ch(b, 1), 1)

\* the cells of a row of a help view from span j on, one per column: the key
\* and the text of an entry (four spans, the first one green), or a header or
\* a blank (one span, no key)
RECURSIVE HelpCells(_, _)
HelpCells(row, j) ==
    IF j > Len(row) THEN <<>>
    ELSE IF row[j].style = "Green"
         THEN <<[key |-> row[j].content, span |-> row[j + 2]]>> \o HelpCells(row, j + 4)
         ELSE <<[key |-> "", span |-> row[j]]>> \o HelpCells(row, j + 1)

\* the help view the step just taken put on the info display: the root help,
\* or the help of a prefix of a chord
C27_Case == (last.msg = "ShowHelp" \/ C20_Case) /\ model.info_list # None

HelpView == Unwrap(model.info_list)
HelpGroups == 1..Len(HelpCells(HelpView[1], 2))
HelpGroupName(c) == HelpCells(HelpView[1], 2)[c].span.content

\* the cells of column c below its header
HelpColumnCells(c) ==
    [i \in 1..(Len(HelpView) - 1) |-> HelpCells(HelpView[i + 1], 2)[c]]

HelpColumnKeys(c) ==
    LET cells == HelpColumnCells(c)
        filled == {i \in 1..Len(cells) : cells[i].key # ""}
    IN [i \in 1..Cardinality(filled) |-> cells[i].key]

\* every row has a cell for every column; in a column the entries come first
\* and blanks of the width of a column fill it up to the longest column
EqualRows ==
    /\ \A i \in 1..Len(HelpView) : Len(HelpCells(HelpView[i], 2)) = Cardinality(HelpGroups)
    /\ \A c \in HelpGroups :
          LET cells == HelpColumnCells(c)
          IN \A i \in 1..Len(cells) :
                cells[i].key = ""
                   => /\ cells[i].span = Spaces(COL_WIDTH)
                      /\ \A k \in i..Len(cells) : cells[k].key = ""
    /\ \E c \in HelpGroups : Len(HelpColumnKeys(c)) = Len(HelpView) - 1

SortedColumn(c) ==
    LET keys == HelpColumnKeys(c)
    IN \A i, k \in 1..Len(keys) : i < k => StrLess(keys[i], keys[k])

\* C27 as stated: in every help view, the root help included, the entries of
\* every group are sorted by key label and all columns have as many rows.
C27_AllGroupsSorted ==
    C27_Case => (EqualRows /\ \A c \in HelpGroups : SortedColumn(c))

\* C27: in every help view all columns have as many rows, shorter groups
\* filled with blank rows, and the entries of the groups of the chords are
\* sorted by key label.  The root help ends with the groups Navigation and
\* General, which are added after the sort and keep the order they are
\* written in, which is not sorted.
C27_ChordGroupsSorted ==
    C27_Case =>
        /\ EqualRows
        /\ \A c \in HelpGroups :
              HelpGroupName(c) \notin {"Navigation", "General"} => SortedColumn(c)
        /\ last.msg = "ShowHelp" =>
              /\ Cardinality(HelpGroups) = 3
              /\ HelpGroupName(1) = "Commands"
              /\ HelpGroupName(2) = "Navigation"
              /\ HelpColumnKeys(2) = <<"Enter", "Tab ", "PgDn", "PgUp", "j/v ", "k/^ ",
                                       "l/> ", "h/< ", "K", "@">>
              /\ HelpGroupName(3) = "General"
              /\ HelpColumnKeys(3) = <<"Ctrl-r", "Esc", "i", "?", "q">>
              /\ ~SortedColumn(2) /\ ~SortedColumn(3)
        /\ C20_Case => \A c \in HelpGroups : SortedColumn(c)

\* the root help is shown: the chords sorted, the navigation keys as they are
\* written, and blank rows below the five general keys
C27_Witness ==
    /\ C27_Case
    /\ last.msg = "ShowHelp"
    /\ HelpColumnKeys(1) = <<"a", "b", "c", "d", "e", "g", "n", "r", "s", "u">>
    /\ Len(HelpColumnKeys(2)) = 10
    /\ Len(HelpView) = 11
    /\ HelpColumnCells(3)[6].span = Spaces(COL_WIDTH)

(***************************************************************************)
(* Properties of the reload and of the flattened lists.                    *)
(***************************************************************************)
\* the step just taken reloaded the log of a session that had a tree
C28_Case == C17_Case /\ last.msg # "new"

\* the index in the tree of the entry a reload selects and toggles: the
\* working copy, or the first entry when no change is the working copy
SelectionTarget(log_tree) ==
    LET hit == {i \in 1..Len(log_tree) :
                   log_tree[i].kind = "Commit" /\ log_tree[i].current_working_copy}
    IN IF hit = {} THEN 1 ELSE CHOOSE i \in hit : \A j \in hit : i <= j

\* a session that starts on the world as it is now
FreshModel == sync(Model_fields, world, AllOk).m

\* C28: after a reload that succeeds, whatever was folded or unfolded before
\* it, every Commit but the one the reload selects is folded and has no
\* children loaded, the files of the selected one are folded with no hunks
\* loaded, and the tree and the lists are those of a session that starts on
\* the log as it is now: nothing of the tree before the reload is left.
C28_ReloadBuildsAnew ==
    C28_Case =>
        /\ \A i \in 1..Len(Tree(model)) :
              LET node == Tree(model)[i]
              IN (node.kind = "Commit" /\ i # SelectionTarget(Tree(model)))
                    => (~node.unfolded /\ ~node.loaded /\ node.file_diffs = <<>>)
        /\ \A i \in 1..Len(Tree(model)) :
              LET node == Tree(model)[i]
              IN node.kind = "Commit" =>
                    \A k \in 1..Len(node.file_diffs) :
                       /\ ~node.file_diffs[k].unfolded
                       /\ ~node.file_diffs[k].loaded
                       /\ node.file_diffs[k].diff_hunks = <<>>
        /\ Tree(model) = Tree(FreshModel)
        /\ Items(model) = Items(FreshModel)

\* a Refresh of a session in which the change that is not the working copy
\* was unfolded, and in which the file of the working copy was unfolded down
\* to its hunks
C28_Witness ==
    /\ C28_Case
    /\ last.msg = "Refresh"
    /\ \E i \in 1..Len(Tree(last.before)) :
          /\ i # SelectionTarget(Tree(last.before))
          /\ Tree(last.before)[i].kind = "Commit"
          /\ Tree(last.before)[i].unfolded
          /\ Tree(last.before)[i].loaded
    /\ \E i \in 1..Len(Tree(last.before)) :
          /\ Tree(last.before)[i].kind = "Commit"
          /\ Len(Tree(last.before)[i].file_diffs) > 0
          /\ Tree(last.before)[i].file_diffs[1].unfolded
          /\ Len(Tree(last.before)[i].file_diffs[1].diff_hunks) > 0
    /\ Len(Tree(model)) = Len(Tree(last.before))

\* the positions of a node and of all the nodes below it, folded or not
RECURSIVE PositionsUnder(_, _)
PositionsUnder(node, pos) ==
    {pos} \cup UNION {PositionsUnder(children(node)[i], Append(pos, i - 1)) :
                         i \in 1..Len(children(node))}

TreePositions(log_tree) ==
    UNION {PositionsUnder(log_tree[i], <<i - 1>>) : i \in 1..Len(log_tree)}

\* the node at a position of the tree, by its children
RECURSIVE NodeUnder(_, _)
NodeUnder(nodes, pos) ==
    IF Len(pos) = 1 THEN nodes[pos[1] + 1]
    ELSE NodeUnder(children(nodes[pos[1] + 1]), Tail(pos))

\* InfoText and DiffHunkLine have no fold state and no children
IsFolded(node) ==
    node.kind \in {"Commit", "FileDiff", "DiffHunk"} /\ ~node.unfolded

\* all the proper ancestors of the node at pos are unfolded
Visible(log_tree, pos) ==
    \A n \in 1..(Len(pos) - 1) : ~IsFolded(NodeUnder(log_tree, SubSeq(pos, 1, n)))

\* p < q in the lexicographic order of Vec<usize>
RECURSIVE LexLess(_, _)
LexLess(p, q) ==
    IF Len(q) = 0 THEN FALSE
    ELSE IF Len(p) = 0 THEN TRUE
    ELSE IF p[1] = q[1] THEN LexLess(Tail(p), Tail(q))
    ELSE p[1] < q[1]

\* C29: the addresses a flatten pass over the tree of any reachable state
\* returns are exactly the positions of the nodes all of whose proper
\* ancestors are unfolded, in strictly increasing lexicographic order (so
\* each parent comes before its children, and children come in index order);
\* every top-level entry is among them, and no address lies below that of a
\* folded node.
C29_FlattenIsPreorderOfVisible ==
    LET PreOrder(f) ==
            LET addresses == f.positions
                listed == {addresses[i] : i \in 1..Len(addresses)}
            IN /\ listed = {p \in TreePositions(f.log_tree) : Visible(f.log_tree, p)}
               /\ \A i \in 1..(Len(addresses) - 1) :
                     LexLess(addresses[i], addresses[i + 1])
               /\ \A i, k \in 1..Len(addresses) :
                     (i # k /\ IsPrefix(addresses[i], addresses[k]))
                        => (i < k /\ ~IsFolded(NodeUnder(f.log_tree, addresses[i])))
               /\ \A i \in 1..Len(f.log_tree) : <<i - 1>> \in listed
               /\ Len(f.log_list) = Len(addresses)
    IN PreOrder(flatten_log(Tree(model), world.overflow_checks))

\* the lists of a running session are those of a pass over a tree in which a
\* folded file has its hunks loaded and two changes are unfolded
C29_Witness ==
    /\ Running
    /\ Items(model) = Items(sync_log_list(model, world.overflow_checks).m)
    /\ \E p \in TreePositions(Tree(model)) :
          /\ Len(p) = FILE_DIFF_IDX + 1
          /\ IsFolded(NodeUnder(Tree(model), p))
          /\ Len(NodeUnder(Tree(model), p).diff_hunks) > 0
          /\ Visible(Tree(model), p)
    /\ \E p \in TreePositions(Tree(model)) : ~Visible(Tree(model), p)
    /\ Cardinality({i \in 1..Len(Tree(model)) : ~IsFolded(Tree(model)[i])
                                                /\ Tree(model)[i].kind = "Commit"}) = 2

\* the messages whose handlers select the flat index they read off a node
IndexReaders ==
    {"SelectParentNode", "SelectNextSiblingNode", "SelectPrevSiblingNode",
     "SelectCurrentWorkingCopy"}

\* C30: in every state of a running session, for every index i of the
\* flattened list the node at addresses[i] holds i as its flat index; and
\* after a step to the parent, to a sibling or to the working copy, the
\* selection is an index of the list, and the address at it is that of a
\* node all of whose ancestors are unfolded and which holds that index.
C30_CachedIndexIsListIndex ==
    Running =>
        /\ Len(model.log_list) = Len(model.log_list_tree_positions)
        /\ \A i \in 1..Len(model.log_list) :
              LET Is(got) == got.res = "ok" /\ got.node.flat_log_idx = i - 1
              IN Is(get_tree_node(Tree(model), model.log_list_tree_positions[i]))
        /\ (/\ last.msg \in IndexReaders
            /\ last.res = "ok"
            /\ get_current_commit(Tree(model)) # None)
              => /\ SelectedOk(model)
                 /\ Visible(Tree(model), get_selected_tree_position(model))
                 /\ NodeUnder(Tree(model), get_selected_tree_position(model)).flat_log_idx
                       = log_selected(model)

\* a step from a line of the second hunk to the hunk before it, in a list in
\* which passes have moved the nodes: the hunk is found at the index it holds,
\* which is not the one the constructor gave it
C30_Witness ==
    /\ Running
    /\ last.msg = "SelectPrevSiblingNode"
    /\ last.res = "ok"
    /\ log_selected(model) # log_selected(last.before)
    /\ Len(get_selected_tree_position(model)) = DIFF_HUNK_IDX + 1
    /\ NodeUnder(Tree(model), get_selected_tree_position(model)).flat_log_idx
          = log_selected(model)
    /\ log_selected(model) > 0
    /\ \E p \in TreePositions(Tree(model)) : ~Visible(Tree(model), p)

(***************************************************************************)
(* Properties of the sibling steps within the children of a parent.        *)
(***************************************************************************)
\* the entries the node at pos is one of: the top-level entries, or the
\* children of its parent
SiblingsAt(log_tree, pos) ==
    IF Len(pos) = 1 THEN log_tree ELSE children(NodeUnder(log_tree, Front(pos)))

\* the step just taken was a sibling step from a Commit, an InfoText, a
\* FileDiff or a DiffHunk that has a sibling on the side of the step (a
\* DiffHunkLine is first replaced by its hunk and is not a subject here)
C31_Case ==
    /\ last.msg \in {"SelectNextSiblingNode", "SelectPrevSiblingNode"}
    /\ SelectedOk(last.before)
    /\ LET pos == get_selected_tree_position(last.before)
       IN /\ Len(pos) <= DIFF_HUNK_IDX + 1
          /\ IF last.msg = "SelectNextSiblingNode"
             THEN Last(pos) < Len(SiblingsAt(Tree(last.before), pos)) - 1
             ELSE Last(pos) > 0

\* C31: a sibling step from a node that is not the last (next) or first
\* (previous) child of its parent selects the item whose address is that of
\* the node with its last component one more or one less, whatever is
\* unfolded below either of the two; nothing but the selection changes.
C31_SiblingWithinParent ==
    C31_Case =>
        LET pos == get_selected_tree_position(last.before)
            step == IF last.msg = "SelectNextSiblingNode" THEN 1 ELSE -1
        IN /\ last.res = "ok"
           /\ SelectedOk(model)
           /\ get_selected_tree_position(model) = Append(Front(pos), Last(pos) + step)
           /\ model = log_select(last.before, log_selected(model))

\* a step from a hunk whose lines are listed to the hunk after it: the step
\* is over more than one item
C31_Witness ==
    /\ C31_Case
    /\ last.msg = "SelectNextSiblingNode"
    /\ Len(get_selected_tree_position(last.before)) = DIFF_HUNK_IDX + 1
    /\ log_selected(model) > log_selected(last.before) + 1

(***************************************************************************)
(* Properties of the wheel scroll.                                         *)
(***************************************************************************)
\* the step just taken was a scroll by one row of a viewport whose
\* selection was not above the offset
C32_Case ==
    /\ last.msg \in {"ScrollDown", "ScrollUp"}
    /\ SelectedOk(last.before)
    /\ log_offset(last.before) <= log_selected(last.before)

\* the last item that has a line in the viewport of m, as scroll_up_once
\* computes it from the offset and the height
LastVisible(m) ==
    line_dist_to_dest_node(m, m.log_list_layout.height - 1, log_offset(m), "Down").node

\* C32 as stated: a scroll by one row moves the offset by exactly one and
\* the selection by at most one item, both in the direction of the scroll,
\* and leaves the selection in the window: after a scroll down the offset is
\* not after the selection, after a scroll up the selection is not after the
\* last item visible from the new offset.
C32_WheelKeepsSelectionVisible ==
    C32_Case =>
        LET step == IF last.msg = "ScrollDown" THEN 1 ELSE -1
        IN /\ last.res = "ok"
           /\ log_offset(model) = log_offset(last.before) + step
           /\ log_selected(model) \in {log_selected(last.before),
                                       log_selected(last.before) + step}
           /\ log_offset(model) <= log_selected(model)
           /\ last.msg = "ScrollUp" => log_selected(model) <= LastVisible(model)

(***************************************************************************)
(* Properties of the load of the log.                                      *)
(***************************************************************************)
\* the lines of the log of w that have the shape of the header of a change
HeaderLines(w) == {i \in 1..Len(w.log) : w.log[i].hdr}

Commits(log_tree) == {i \in 1..Len(log_tree) : log_tree[i].kind = "Commit"}

\* C33 as stated: after a load of the log that succeeds, there is a Commit
\* for every line of the output that has the shape of a header, also for one
\* right after another header, and the second line of no Commit is such a
\* line: there are as many Commits as header lines.
C33_CommitPerHeaderLine ==
    C17_Case =>
        /\ Cardinality(Commits(Tree(model))) = Cardinality(HeaderLines(world))
        /\ \A i \in HeaderLines(world) :
              \E k \in Commits(Tree(model)) :
                 Tree(model)[k].change_id = world.log[i].change_id
        /\ \A k \in Commits(Tree(model)) :
              \A i \in HeaderLines(world) :
                 Tree(model)[k].pretty_line2 # jj_log_line(world.log[i])

(***************************************************************************)
(* Properties of the selection.                                            *)
(***************************************************************************)
\* C34 as stated: in a running session with a log that is not empty, after
\* every step the selection is an index of the flattened list.
C34_SelectionInList ==
    (Running /\ model.log_list # <<>>)
        => /\ IsSome(model.log_list_state.selected)
           /\ log_selected(model) >= 0
           /\ log_selected(model) < Len(model.log_list)

(***************************************************************************)
(* Properties of the key buffer.                                           *)
(***************************************************************************)
\* the node of the trie the pending keys of m lead to from the root, if any
PendingNode(m) == CommandTree_get_node(CommandTree_new, m.command_keys)

\* C35: whatever keys were fed, the pending keys are none, or they lead from
\* the root of the trie to a node with children: never to a command, and
\* never off the trie.
C35_BufferIsInternalPath ==
    \/ model.command_keys = <<>>
    \/ /\ PendingNode(model) # None
       /\ Unwrap(PendingNode(model)).kind = "Children"

\* s fed under the pending b: the buffer spells b, s, a node with children
\* two keys below the root
C35_Witness ==
    /\ last.msg = "CommandKey"
    /\ last.key = "s"
    /\ last.before.command_keys = <<"b">>
    /\ model.command_keys = <<"b", "s">>
    /\ Unwrap(PendingNode(model)).kind = "Children"

(***************************************************************************)
(* Properties of the mouse clicks.                                         *)
(***************************************************************************)
\* the step just taken was a click, with either button, at a row or a column
\* outside the rectangle of the log list, and it did not fail
C36_Case ==
    /\ last.msg \in {"LeftMouseClick", "RightMouseClick"}
    /\ last.key = "outside"
    /\ last.res = "ok"

\* C36 as stated: a click outside the rectangle of the log list, with either
\* button, leaves the selection, the offset and the fold state of every node
\* as they were.
C36_ClickOutsideChangesNothing ==
    C36_Case =>
        /\ model.log_list_state = last.before.log_list_state
        /\ Tree(model) = Tree(last.before)

(***************************************************************************)
(* The default selection of a load without a working copy.                 *)
(***************************************************************************)
\* the step just taken loaded or reloaded the log, with success, and no
\* Commit of the tree has the working-copy flag
C37_Case == C17_Case /\ get_current_commit(Tree(model)) = None

\* C37: after a load in which no Commit has the working-copy flag, item 0 is
\* selected and only the fold of entry 0 was toggled: a Commit there is
\* unfolded with its files loaded, a line of text leaves nothing unfolded,
\* and every Commit after entry 0 is folded, its files not loaded.
C37_NoCurrentTogglesFirst ==
    C37_Case =>
        /\ SelectedOk(model)
        /\ log_selected(model) = 0
        /\ get_selected_tree_position(model) = <<0>>
        /\ Tree(model)[1].kind = "Commit"
              => /\ Tree(model)[1].unfolded
                 /\ Tree(model)[1].loaded
                 /\ Len(Tree(model)[1].file_diffs)
                       = Len(FilesOf(world, Tree(model)[1].change_id))
        /\ \A i \in Commits(Tree(model)) :
              (i > 1) => (~Tree(model)[i].unfolded /\ ~Tree(model)[i].loaded)
        /\ Tree(model)[1].kind = "InfoText"
              => \A i \in Commits(Tree(model)) : ~Tree(model)[i].unfolded

\* a reload, from a selection further down, of a log of two changes, neither
\* the working copy: the first is selected and unfolded with its file, the
\* second is folded
C37_Witness ==
    /\ C37_Case
    /\ last.msg = "Refresh"
    /\ log_selected(last.before) = 2
    /\ Commits(Tree(model)) = {1, 2}
    /\ log_selected(model) = 0
    /\ Tree(model)[1].unfolded
    /\ Len(Tree(model)[1].file_diffs) = 1
    /\ ~Tree(model)[2].unfolded
    /\ Len(model.log_list) = 3

(***************************************************************************)
(* The hunks of a file without hunk lines.                                 *)
(***************************************************************************)
\* the step just taken unfolded a FileDiff whose hunks were not loaded; the
\* collaborator answered the query, and its output has no line after the
\* header line that is skipped
C38_Case ==
    /\ last.msg = "ToggleLogListFold"
    /\ last.oc.load = "ok"
    /\ SelectedOk(last.before)
    /\ Subject(last.before).res = "ok"
    /\ ToggledBefore.kind = "FileDiff"
    /\ ~ToggledBefore.unfolded
    /\ ~ToggledBefore.loaded
    /\ Len(diff_file(world, ToggledBefore.change_id, ToggledBefore.path)) <= 1

\* C38 as stated: unfolding a FileDiff whose hunk query prints no hunk lines
\* completes without failure and leaves the FileDiff unfolded, loaded, with
\* no DiffHunk under it.
C38_NoHunksUnfoldsEmpty ==
    C38_Case =>
        /\ last.res = "ok"
        /\ Running
        /\ ToggledAfter.unfolded
        /\ ToggledAfter.loaded
        /\ ToggledAfter.diff_hunks = <<>>

(***************************************************************************)
(* The load of an empty log.                                               *)
(***************************************************************************)
\* the step just taken loaded or reloaded the log, the collaborator answered
\* both queries, and the output of the log query has no lines
C39_Case ==
    /\ InSeq("log", last.queries)
    /\ last.oc.log = "ok"
    /\ last.oc.load = "ok"
    /\ world.log = <<>>

\* C39 as stated: a load of a log without lines does not fail and leaves an
\* empty tree and an empty flattened list.
C39_EmptyLogLoads ==
    C39_Case =>
        /\ last.res = "ok"
        /\ Running
        /\ Tree(model) = <<>>
        /\ model.log_list = <<>>
        /\ model.log_list_tree_positions = <<>>

====
